---------------------------- MODULE Spec2Model ----------------------------
(***************************************************************************)
(* A model of the NomiMoon authentication core: the User and Token models, *)
(* the JWT service, the auth service, the Google auth service, the         *)
(* authenticate middleware and the client's axios interceptors.  The       *)
(* persistent store (users, tokens), the clock and the browser's           *)
(* localStorage are the state.  A handler is a sequence of steps, one per  *)
(* awaited store operation: a step runs the code that follows the previous *)
(* operation's result and performs the next operation; what a request has  *)
(* loaded so far is kept in inflight.  Other requests and the clock may    *)
(* act between two steps.  A handler ends with its response; the response  *)
(* reaches the browser in a step of its own, in which the client stores or *)
(* removes tokens.                                                         *)
(***************************************************************************)
EXTENDS Integers, Sequences, FiniteSets, TLC

(***************************************************************************)
(* Bounds of the model.                                                    *)
(***************************************************************************)
MaxTicks == 2
MaxAttempts == 6
MaxSecrets == 2
MaxUsers == 1
MaxClients == 2
MaxRefreshes == 2

(***************************************************************************)
(* Program constants.                                                      *)
(***************************************************************************)
NULL == -1
UNDEF == -2
T0 == 10000
MAX_LOGIN_ATTEMPTS == 5
LOCK_TIME == 7200000
PWD_SKEW == 1000
MS_PER_SEC == 1000
ACCESS_TTL_S == 604800
REFRESH_TTL_S == 2592000
VERIFY_TTL == 86400000
RESET_TTL == 3600000

Emails == {"a@x.com", "A@x.com", "b@x.com"}
Passwords == {"pw-right-1", "pw-other-2"}

\* String.prototype.toLowerCase on the e-mail addresses of the model.
Lower(e) == IF e = "A@x.com" THEN "a@x.com" ELSE e

(***************************************************************************)
(* Response messages, as the source spells them.                           *)
(***************************************************************************)
MsgInvalid == "Invalid email or password"
MsgUnverified == "Please verify your email before logging in. Check your inbox for the verification link."
MsgLocked == "Your account has been locked due to too many failed login attempts. Please try again later or reset your password."
MsgLoginOk == "Login successful"
MsgEmailInUse == "Email already in use. Please login or use a different email."
MsgEmailExists == "email already exists"
MsgSignupOk == "Signup successful! Please check your email to verify your account."
MsgBadVerifyLink == "Invalid or expired verification link. Please request a new verification email."
MsgUserNotFound == "User not found"
MsgAlreadyVerified == "Email is already verified. You can log in now."
MsgVerifiedOk == "Email verified successfully! Welcome aboard!"
MsgResendGeneric == "If your email is registered, you will receive a verification link."
MsgResendRecent == "A verification email was recently sent. Please check your inbox or spam folder. Wait a few minutes before requesting another."
MsgResendSent == "Verification email sent. Please check your inbox."
MsgForgotGeneric == "If your email is registered, you will receive a password reset link."
MsgForgotRecent == "A password reset email was recently sent. Please check your inbox or spam folder. Wait a few minutes before requesting another."
MsgForgotSendFailed == "Failed to send password reset email. Please try again later."
MsgBadResetLink == "Invalid or expired password reset link. Please request a new one."
MsgResetOk == "Password reset successful! You can now log in with your new password."
MsgSendFailed == "Failed to send email. Please try again later."
MsgTokenExpired == "Token has expired. Please log in again."
MsgTokenInvalid == "Invalid token. Please log in again."
MsgRefreshExpired == "Refresh token has expired. Please log in again."
MsgRefreshInvalid == "Invalid refresh token. Please log in again."
MsgTokenType == "Invalid token type"
MsgUserGone == "User no longer exists. Please log in again."
MsgEmailNotVerified == "Email not verified. Please verify your email."
MsgNotLoggedIn == "You are not logged in. Please log in to access this resource."
MsgTokenUserGone == "The user belonging to this token no longer exists. Please log in again."
MsgPasswordChanged == "You recently changed your password. Please log in again."
MsgVerifyFirst == "Please verify your email before accessing this resource."
MsgWrongCurrent == "Current password is incorrect"
MsgPasswordUpdated == "Password updated successfully"
MsgAccountDeleted == "Account deleted successfully"
MsgBadGoogleToken == "Invalid Google token"
MsgNoIdToken == "Google ID token is required"
MsgPasswordTooShort == "Validation failed: Password must be at least 8 characters"

(***************************************************************************)
(* bcrypt: hash(p) carries p one-way; compare(c, h) re-hashes c.           *)
(***************************************************************************)
NoPassword == <<>>
bcryptHash(p) == <<"bcrypt", p>>
bcryptCompare(c, h) == h = bcryptHash(c)

(***************************************************************************)
(* Session tokens (JWT): a signed, self-contained record.                  *)
(***************************************************************************)
JwtSecret == "jwt-secret"
NoJwt == [id |-> 0, type |-> "none", iat |-> 0, exp |-> 0, key |-> "none"]

\* crypto.createHash('sha256').update(plain).digest('hex')
sha256(plain) == <<"sha256", plain>>

VARIABLES
    now,            \* Date.now(), in milliseconds
    ticks,          \* how many times the clock has advanced
    users,          \* the users collection: a sequence of documents, _id = index
    tokens,         \* the tokens collection: a set of documents
    nextSecret,     \* crypto.randomBytes: the next fresh plaintext
    outbox,         \* mails delivered by the email collaborator
    refreshSecret,  \* config.jwt.refreshSecret
    held,           \* localStorage: the session tokens the browser keeps
    resp,           \* the last response sent, and the call it answers
    wire,           \* responses sent that the browser has not received yet
    streak,         \* consecutive wrong-password logins since a clean counter
    inflight,       \* per request: where its handler stands and its locals
    uses            \* per plaintext, the calls of verifyToken that returned a user

vars == <<now, ticks, users, tokens, nextSecret, outbox, refreshSecret, held,
          resp, wire, streak, inflight, uses>>

Clients == 1..MaxClients

\* The one caller of the runs in which calls do not overlap.
Callers == {1}

\* findOne that found nothing.
NoTokenDoc == [userId |-> 0, token |-> sha256(0), type |-> "none",
               expiresAt |-> 0, createdAt |-> 0]

\* A request that has not started: its arguments (email, password,
\* newPassword, plain, tok), and the locals of its handler (uid, user,
\* tokenDoc, found; doc for everything else).  For a request of the page,
\* caller is the function of the client that awaits it.
Idle == [pc |-> "idle", email |-> "", password |-> "", newPassword |-> "",
         plain |-> 0, tok |-> NoJwt, uid |-> 0, user |-> <<>>,
         tokenDoc |-> NoTokenDoc, found |-> FALSE, doc |-> <<>>,
         caller |-> ""]

NoResp == [op |-> "none", code |-> 0, msg |-> "", at |-> 0, uid |-> 0,
           access |-> NoJwt, refresh |-> NoJwt, tok |-> NoJwt, plain |-> 0]

Reply(op, code, msg, uid, access, refresh) ==
    [op |-> op, code |-> code, msg |-> msg, at |-> now, uid |-> uid,
     access |-> access, refresh |-> refresh, tok |-> NoJwt, plain |-> 0]

\* What the client reads of the response r to request c: which call it
\* answers, its status, and data.accessToken and data.refreshToken.
Data(c, r) == [to |-> c, op |-> r.op, code |-> r.code, access |-> r.access,
               refresh |-> r.refresh]

\* res.status(code).json(...): the handler's part ends with the response,
\* which is then on its way to the browser.
Answer(c, r) ==
    /\ resp' = r
    /\ wire' = wire \cup {Data(c, r)}

\* Request c can be made: the function of the page that makes it has
\* received the answer to its previous call.
Free(c) ==
    /\ inflight[c].pc = "idle"
    /\ \A r \in wire : r.to # c

\* The reply to a call that presented session token tok.
ReplyTo(tok, op, code, msg, uid, access, refresh) ==
    [Reply(op, code, msg, uid, access, refresh) EXCEPT !.tok = tok]

\* The reply to a call that presented the plaintext of an e-mailed link.
ReplyLink(plain, op, code, msg, uid, access, refresh) ==
    [Reply(op, code, msg, uid, access, refresh) EXCEPT !.plain = plain]

(***************************************************************************)
(* The User model.                                                         *)
(***************************************************************************)
NewUser(email, pw, verified, gid) ==
    [email |-> Lower(email), password |-> bcryptHash(pw),
     isEmailVerified |-> verified,
     emailVerifiedAt |-> IF verified THEN now ELSE NULL,
     isActive |-> TRUE, passwordChangedAt |-> NULL, lastLoginAt |-> NULL,
     loginAttempts |-> 0, lockUntil |-> NULL, googleId |-> gid]

\* The fields a query returns: those with select: false come back undefined
\* unless the query adds them with select('+field').
Select(u, plus) ==
    [email |-> u.email,
     isEmailVerified |-> u.isEmailVerified,
     emailVerifiedAt |-> u.emailVerifiedAt,
     lastLoginAt |-> u.lastLoginAt,
     password |-> IF "password" \in plus THEN u.password ELSE NoPassword,
     passwordChangedAt |-> IF "passwordChangedAt" \in plus
                           THEN u.passwordChangedAt ELSE UNDEF,
     loginAttempts |-> IF "loginAttempts" \in plus
                       THEN u.loginAttempts ELSE UNDEF,
     lockUntil |-> IF "lockUntil" \in plus THEN u.lockUntil ELSE UNDEF]

\* JavaScript truthiness of an optional date or number field.
Truthy(x) == x # UNDEF /\ x # NULL

\* (Lookups that would also return soft-deleted documents.)
Visible_Unfiltered(i) == i \in 1..Len(users)

\* pre(/^find/): every find query also asks for isActive != false.
Visible(i) == i \in 1..Len(users) /\ users[i].isActive # FALSE

findById(i) == IF Visible(i) THEN i ELSE 0

findByEmail(e) ==
    IF \E i \in 1..Len(users) : Visible(i) /\ users[i].email = Lower(e)
    THEN CHOOSE i \in 1..Len(users) : Visible(i) /\ users[i].email = Lower(e)
    ELSE 0

findByEmailWithPassword(e) == findByEmail(e)

comparePassword(doc, candidate) == bcryptCompare(candidate, doc.password)

isLocked(doc, t) == Truthy(doc.lockUntil) /\ doc.lockUntil > t

changedPasswordAfter(doc, JWTTimestamp) ==
    IF Truthy(doc.passwordChangedAt)
    THEN JWTTimestamp < doc.passwordChangedAt \div MS_PER_SEC
    ELSE FALSE

\* The stored document after doc.incLoginAttempts(): the conditions read the
\* loaded document, the update ($set/$unset/$inc) acts on the stored one.
incLoginAttempts(doc, stored, t) ==
    IF Truthy(doc.lockUntil) /\ doc.lockUntil < t
    THEN [stored EXCEPT !.loginAttempts = 1, !.lockUntil = NULL]
    ELSE IF /\ doc.loginAttempts # UNDEF
            /\ doc.loginAttempts + 1 >= MAX_LOGIN_ATTEMPTS
            /\ ~isLocked(doc, t)
         THEN [stored EXCEPT !.loginAttempts = @ + 1,
                             !.lockUntil = t + LOCK_TIME]
         ELSE [stored EXCEPT !.loginAttempts = @ + 1]

\* A reset that would leave the lock in place.
resetLoginAttempts_KeepLock(stored, t) ==
    [stored EXCEPT !.loginAttempts = 0, !.lastLoginAt = t]

resetLoginAttempts(stored, t) ==
    [stored EXCEPT !.loginAttempts = 0, !.lastLoginAt = t, !.lockUntil = NULL]

(***************************************************************************)
(* The JWT service.                                                        *)
(***************************************************************************)
NowSec(t) == t \div MS_PER_SEC

generateAccessToken(uid, t) ==
    [id |-> uid, type |-> "access", iat |-> NowSec(t),
     exp |-> NowSec(t) + ACCESS_TTL_S, key |-> JwtSecret]

generateRefreshToken(uid, t) ==
    [id |-> uid, type |-> "refresh", iat |-> NowSec(t),
     exp |-> NowSec(t) + REFRESH_TTL_S, key |-> refreshSecret]

\* localStorage.setItem('accessToken', ...) / setItem('refreshToken', ...)
\* once the response has arrived: the storage after the client has stored
\* toks; a key holds one value.
Keep(toks) == {t \in held : \A n \in toks : n.type # t.type} \cup toks

(***************************************************************************)
(* Requests.                                                               *)
(***************************************************************************)
NoCallInFlight == \A c \in DOMAIN inflight : inflight[c].pc = "idle"

\* Request c starts as r, moves on to the step pc, or has been answered.
Start(c, r) == inflight' = [inflight EXCEPT ![c] = r]
Goto(c, pc) == inflight' = [inflight EXCEPT ![c].pc = pc]
Done(c) == inflight' = [inflight EXCEPT ![c] = Idle]

(***************************************************************************)
(* The auth service: login.                                                *)
(***************************************************************************)
\* A login call counts towards the streak when it names a visible, verified
\* user and its password does not match the stored hash.  The streak starts
\* from a stored loginAttempts = 0 with no lockUntil, and the calls are
\* consecutive: the previous call was the streak's previous login.
WrongPassword(uid, password) ==
    /\ uid # 0
    /\ users[uid].isEmailVerified
    /\ ~bcryptCompare(password, users[uid].password)

StreakAfter(uid, password) ==
    IF ~WrongPassword(uid, password) THEN 0
    ELSE IF streak > 0 /\ resp.op = "login" /\ resp.uid = uid THEN streak + 1
    ELSE IF users[uid].loginAttempts = 0 /\ users[uid].lockUntil = NULL
         THEN 1 ELSE 0

\* The e-mail verification gate of login and refreshAccessToken.
\* (A gate that would let everyone through.)
requireVerified_Skipped(doc) == TRUE

requireVerified(doc) == doc.isEmailVerified

NoDoc == Select(NewUser("", "", FALSE, NULL), {})

\* User.findByEmailWithPassword(email): findOne(...).select('+password').
loginDoc(uid) == IF uid = 0 THEN NoDoc ELSE Select(users[uid], {"password"})

\* The message of the rejection that follows incLoginAttempts().
failedLoginMessage_Locked(after) ==
    IF after.loginAttempts >= MAX_LOGIN_ATTEMPTS THEN MsgLocked ELSE MsgInvalid

failedLoginMessage(after) == MsgInvalid

MsgCompareFailed == "Password comparison failed"
MsgInternal == "Something went wrong. Please try again later."

\* (A failed comparison that would count as a wrong password.)
onCompareError_Counted(doc, stored, t) == incLoginAttempts(doc, stored, t)

\* The stored document after comparePassword has thrown: the error leaves
\* login before incLoginAttempts() and resetLoginAttempts().
onCompareError(doc, stored, t) == stored

\* errorHandler on an error that is not an AppError: its statusCode defaults
\* to 500; the development build sends its message, the production build a
\* generic one.
internalErrorMessage(message, dev) == IF dev THEN message ELSE MsgInternal

\* await User.findByEmailWithPassword(email)
loginFind(c, email, password) ==
    /\ Free(c)
    /\ Start(c, [Idle EXCEPT
                   !.pc = "login:found", !.email = email,
                   !.password = password,
                   !.uid = findByEmailWithPassword(email),
                   !.user = loginDoc(findByEmailWithPassword(email))])
    /\ UNCHANGED <<now, ticks, users, tokens, nextSecret, outbox,
                   refreshSecret, held, resp, wire, streak, uses>>

\* login has loaded a user, who is verified and, by the clock, not locked:
\* the request gets as far as comparePassword.
ReachesCompare(c) ==
    /\ inflight[c].pc = "login:found"
    /\ inflight[c].uid # 0
    /\ requireVerified(inflight[c].user)
    /\ ~isLocked(inflight[c].user, now)

\* login from "if (!user)" to the updateOne of user.incLoginAttempts() or of
\* user.resetLoginAttempts(): the checks read the loaded document and the
\* clock, updateOne acts on the stored document.  The rejections before the
\* password check are thrown here; after the updateOne the request awaits
\* its result.
loginUpdate(c) ==
    LET uid == inflight[c].uid
        doc == inflight[c].user
        password == inflight[c].password
    IN
    /\ inflight[c].pc = "login:found"
    /\ UNCHANGED <<now, ticks, tokens, nextSecret, outbox, refreshSecret,
                   held, uses>>
    /\ IF uid = 0
       THEN /\ Answer(c, Reply("login", 401, MsgInvalid, 0, NoJwt, NoJwt))
            /\ streak' = 0
            /\ Done(c)
            /\ UNCHANGED users
       ELSE IF ~requireVerified(doc)
       THEN /\ Answer(c, Reply("login", 401, MsgUnverified, uid, NoJwt, NoJwt))
            /\ streak' = StreakAfter(uid, password)
            /\ Done(c)
            /\ UNCHANGED users
       ELSE IF isLocked(doc, now)
       THEN /\ Answer(c, Reply("login", 401, MsgLocked, uid, NoJwt, NoJwt))
            /\ streak' = StreakAfter(uid, password)
            /\ Done(c)
            /\ UNCHANGED users
       ELSE IF ~comparePassword(doc, password)
       THEN /\ users[uid].loginAttempts < MaxAttempts
            /\ users' = [users EXCEPT
                           ![uid] = incLoginAttempts(doc, users[uid], now)]
            /\ streak' = StreakAfter(uid, password)
            /\ Goto(c, "login:counted")
            /\ UNCHANGED <<resp, wire>>
       ELSE /\ users' = [users EXCEPT
                           ![uid] = resetLoginAttempts(users[uid], now)]
            /\ streak' = 0
            /\ Goto(c, "login:reset")
            /\ UNCHANGED <<resp, wire>>

\* login after incLoginAttempts() has returned: throw unauthorized(...).
loginReject(c) ==
    LET uid == inflight[c].uid IN
    /\ inflight[c].pc = "login:counted"
    /\ Answer(c, Reply("login", 401, failedLoginMessage(users[uid]), uid,
                     NoJwt, NoJwt))
    /\ Done(c)
    /\ UNCHANGED <<now, ticks, users, tokens, nextSecret, outbox,
                   refreshSecret, held, streak, uses>>

\* login from generateTokens(user._id) on: the clock is read again for the
\* tokens' iat, and the pair is sent with the response.
loginReply(c) ==
    LET uid == inflight[c].uid IN
    /\ inflight[c].pc = "login:reset"
    /\ Answer(c, Reply("login", 200, MsgLoginOk, uid,
                     generateAccessToken(uid, now),
                     generateRefreshToken(uid, now)))
    /\ Done(c)
    /\ UNCHANGED <<now, ticks, users, tokens, nextSecret, outbox,
                   refreshSecret, held, streak, uses>>

\* bcrypt.compare throws while request c awaits comparePassword; dev is
\* config.isDevelopment().
loginCompareRaises(c, dev) ==
    LET uid == inflight[c].uid IN
    /\ ReachesCompare(c)
    /\ users' = [users EXCEPT
                   ![uid] = onCompareError(inflight[c].user, users[uid], now)]
    /\ Answer(c, Reply("login", 500,
                     internalErrorMessage(MsgCompareFailed, dev),
                     uid, NoJwt, NoJwt))
    /\ streak' = 0
    /\ Done(c)
    /\ UNCHANGED <<now, ticks, tokens, nextSecret, outbox, refreshSecret,
                   held, uses>>

(***************************************************************************)
(* The Token model.                                                        *)
(***************************************************************************)
TokenTypes == {"email-verification", "password-reset"}

TokenTtls == {RESET_TTL, VERIFY_TTL}

Matching(userId, type) == {t \in tokens : t.userId = userId /\ t.type = type}

\* (A generateToken that would insert without deleting first.)
deleteMany_Nothing(userId, type) == tokens

\* generateToken: await this.deleteMany({ userId, type })
deleteMany(userId, type) == tokens \ Matching(userId, type)

\* generateToken: randomBytes, sha256, new Date(Date.now() + expiresInMs)
\* and await this.create({...}); the plaintext it returns is nextSecret.
create(userId, type, expiresInMs) ==
    tokens \cup
        {[userId |-> userId, token |-> sha256(nextSecret), type |-> type,
          expiresAt |-> now + expiresInMs, createdAt |-> now]}

\* (A lookup by the hash alone.)
tokenDocs_AnyKind(plain, type) == {t \in tokens : t.token = sha256(plain)}

\* The documents findOne({ token: hashedToken, type }) can return.
tokenDocs(plain, type) ==
    {t \in tokens : t.token = sha256(plain) /\ t.type = type}

\* verifyToken: await this.findOne({ token: hashedToken, type })
findOne(plain, type) ==
    IF tokenDocs(plain, type) = {} THEN NoTokenDoc
    ELSE CHOOSE t \in tokenDocs(plain, type) : TRUE

\* (A verifyToken that would not look at expiresAt.)
expired_Never(tokenDoc, t) == FALSE

\* verifyToken: tokenDoc.expiresAt < new Date()
expired(tokenDoc, t) == tokenDoc.expiresAt < t

\* What Token.verifyToken(plain, type) returns when nothing else touches the
\* store while it runs: the userId, 0 for null.
verifyToken(plain, type) ==
    IF findOne(plain, type) = NoTokenDoc THEN 0
    ELSE IF expired(findOne(plain, type), now) THEN 0
    ELSE findOne(plain, type).userId

\* (A verifyToken that would leave the document in place.)
deleteOne_Keep(tokenDoc) == tokens

\* verifyToken: await this.deleteOne({ _id: tokenDoc._id })
deleteOne(tokenDoc) == tokens \ {tokenDoc}

\* (A deleteUserTokens that would remove the reset links only.)
deleteUserTokens_ResetOnly(userId) ==
    tokens \ Matching(userId, "password-reset")

\* Token.deleteUserTokens(userId): deleteMany({ userId })
deleteUserTokens(userId) == {t \in tokens : t.userId # userId}

\* Token.deleteUserTokens(userId, type): deleteMany({ userId, type })
deleteUserTokensOfType(userId, type) == tokens \ Matching(userId, type)

\* The plaintexts a caller can present: those generated so far and one that
\* never was.
Plains == 1..(MaxSecrets + 1)

\* Token.hasValidToken: findOne({ userId, type, expiresAt: { $gt: new Date() } })
hasValidToken(userId, type) ==
    \E t \in tokens : t.userId = userId /\ t.type = type /\ t.expiresAt > now

\* The first two steps of Token.verifyToken on behalf of request c, which
\* is at step pc and goes on to step next: the continuation after findOne
\* ("if (!tokenDoc)", the expiry check) and the deleteOne.  The call returns
\* null without a document and for an expired one; uses counts the calls
\* that return a userId.
verifyTokenReturns(c) ==
    IF inflight[c].tokenDoc = NoTokenDoc \/ expired(inflight[c].tokenDoc, now)
    THEN 0
    ELSE inflight[c].tokenDoc.userId

verifyTokenDeletes(c) ==
    /\ tokens' = IF inflight[c].tokenDoc = NoTokenDoc THEN tokens
                 ELSE deleteOne(inflight[c].tokenDoc)
    /\ uses' = IF verifyTokenReturns(c) # 0
               THEN [uses EXCEPT ![inflight[c].plain] = @ + 1]
               ELSE uses

(***************************************************************************)
(* The auth service: signup.                                               *)
(***************************************************************************)
\* The unique index on email: it also sees soft-deleted documents.
EmailTaken(e) == \E i \in 1..Len(users) : users[i].email = Lower(e)

Mail(to, kind, plain) == [to |-> to, kind |-> kind, token |-> plain]

\* await User.findByEmail(email)
signupFind(c, email, password) ==
    /\ Free(c)
    /\ Start(c, [Idle EXCEPT !.pc = "signup:found", !.email = email,
                             !.password = password,
                             !.uid = findByEmail(email)])
    /\ UNCHANGED <<now, ticks, users, tokens, nextSecret, outbox,
                   refreshSecret, held, resp, wire, streak, uses>>

\* "if (existingUser) throw conflict", then await User.create({...}): the
\* insert fails on the unique index (E11000, answered 409) when a document,
\* soft-deleted or created since the lookup, has the address.
signupCreate(c) ==
    LET email == inflight[c].email IN
    /\ inflight[c].pc = "signup:found"
    /\ UNCHANGED <<now, ticks, tokens, nextSecret, outbox, refreshSecret,
                   held, streak, uses>>
    /\ IF inflight[c].uid # 0
       THEN /\ Answer(c, Reply("signup", 409, MsgEmailInUse, inflight[c].uid,
                             NoJwt, NoJwt))
            /\ Done(c)
            /\ UNCHANGED users
       ELSE IF EmailTaken(email)
       THEN /\ Answer(c, Reply("signup", 409, MsgEmailExists, 0, NoJwt, NoJwt))
            /\ Done(c)
            /\ UNCHANGED users
       ELSE /\ Len(users) < MaxUsers
            /\ users' = Append(users, NewUser(email, inflight[c].password,
                                              FALSE, NULL))
            /\ inflight' = [inflight EXCEPT ![c].pc = "signup:created",
                                            ![c].uid = Len(users) + 1]
            /\ UNCHANGED <<resp, wire>>

\* Token.generateToken(user._id, 'email-verification', 24h): the deleteMany.
signupDeleteTokens(c) ==
    /\ inflight[c].pc = "signup:created"
    /\ tokens' = deleteMany(inflight[c].uid, "email-verification")
    /\ Goto(c, "signup:deleted")
    /\ UNCHANGED <<now, ticks, users, nextSecret, outbox, refreshSecret,
                   held, resp, wire, streak, uses>>

\* Token.generateToken: the create; the request keeps the plaintext.
signupIssue(c) ==
    /\ inflight[c].pc = "signup:deleted"
    /\ nextSecret <= MaxSecrets
    /\ tokens' = create(inflight[c].uid, "email-verification", VERIFY_TTL)
    /\ nextSecret' = nextSecret + 1
    /\ inflight' = [inflight EXCEPT ![c].pc = "signup:issued",
                                    ![c].plain = nextSecret]
    /\ UNCHANGED <<now, ticks, users, outbox, refreshSecret, held, resp,
                   wire, streak, uses>>

\* await sendVerificationEmail(user, token): sendMail delivers or fails.
signupMail(c, sendOk) ==
    /\ inflight[c].pc = "signup:issued"
    /\ outbox' = IF sendOk
                 THEN outbox \cup {Mail(Lower(inflight[c].email),
                                        "email-verification",
                                        inflight[c].plain)}
                 ELSE outbox
    /\ Goto(c, "signup:mailed")
    /\ UNCHANGED <<now, ticks, users, tokens, nextSecret, refreshSecret,
                   held, resp, wire, streak, uses>>

\* signup after the mail: a failure is caught and logged; the return.
signupReply(c) ==
    /\ inflight[c].pc = "signup:mailed"
    /\ Answer(c, Reply("signup", 201, MsgSignupOk, inflight[c].uid, NoJwt,
                     NoJwt))
    /\ Done(c)
    /\ UNCHANGED <<now, ticks, users, tokens, nextSecret, outbox,
                   refreshSecret, held, streak, uses>>

(***************************************************************************)
(* The auth service: verifyEmail.                                          *)
(***************************************************************************)
\* (A guard that would let a verified user verify again.)
alreadyVerified_Ignored(doc) == FALSE

\* verifyEmail's idempotency guard: if (user.isEmailVerified) throw.
alreadyVerified(doc) == doc.isEmailVerified

\* User.findById(id): the document a query without select('+...') returns.
userDoc(uid) == IF findById(uid) = 0 THEN NoDoc ELSE Select(users[uid], {})

\* Token.verifyToken(token, 'email-verification'): the findOne.
verifyEmailFindToken(c, plain) ==
    /\ Free(c)
    /\ Start(c, [Idle EXCEPT !.pc = "verifyEmail:token", !.plain = plain,
                             !.tokenDoc = findOne(plain,
                                                  "email-verification")])
    /\ UNCHANGED <<now, ticks, users, tokens, nextSecret, outbox,
                   refreshSecret, held, resp, wire, streak, uses>>

\* Token.verifyToken from "if (!tokenDoc)" to its deleteOne: without a
\* document it returns null at once, which is answered 400; otherwise the
\* document, expired or not, is deleted and the request awaits the result.
verifyEmailDeleteToken(c) ==
    /\ inflight[c].pc = "verifyEmail:token"
    /\ verifyTokenDeletes(c)
    /\ IF inflight[c].tokenDoc = NoTokenDoc
       THEN /\ Answer(c, ReplyLink(inflight[c].plain, "verifyEmail", 400,
                                 MsgBadVerifyLink, 0, NoJwt, NoJwt))
            /\ Done(c)
       ELSE /\ inflight' = [inflight EXCEPT
                              ![c].pc = "verifyEmail:userId",
                              ![c].uid = verifyTokenReturns(c)]
            /\ UNCHANGED <<resp, wire>>
    /\ UNCHANGED <<now, ticks, users, nextSecret, outbox, refreshSecret,
                   held, streak>>

\* Token.verifyToken returns: "if (!userId)" answers the null of an expired
\* link 400; otherwise await User.findById(userId).
verifyEmailFindUser(c) ==
    /\ inflight[c].pc = "verifyEmail:userId"
    /\ IF inflight[c].uid = 0
       THEN /\ Answer(c, ReplyLink(inflight[c].plain, "verifyEmail", 400,
                                 MsgBadVerifyLink, 0, NoJwt, NoJwt))
            /\ Done(c)
       ELSE /\ inflight' = [inflight EXCEPT
                              ![c].pc = "verifyEmail:user",
                              ![c].found = findById(inflight[c].uid) # 0,
                              ![c].user = userDoc(inflight[c].uid)]
            /\ UNCHANGED <<resp, wire>>
    /\ UNCHANGED <<now, ticks, users, tokens, nextSecret, outbox,
                   refreshSecret, held, streak, uses>>

\* "if (!user)", "if (user.isEmailVerified)", then the two assignments and
\* await user.save(), which writes the paths the handler modified.
verifyEmailSave(c) ==
    LET user == inflight[c].uid
        plain == inflight[c].plain
    IN
    /\ inflight[c].pc = "verifyEmail:user"
    /\ UNCHANGED <<now, ticks, tokens, nextSecret, outbox, refreshSecret,
                   held, streak, uses>>
    /\ IF ~inflight[c].found
       THEN /\ Answer(c, ReplyLink(plain, "verifyEmail", 404, MsgUserNotFound,
                                 user, NoJwt, NoJwt))
            /\ Done(c)
            /\ UNCHANGED users
       ELSE IF alreadyVerified(inflight[c].user)
       THEN /\ Answer(c, ReplyLink(plain, "verifyEmail", 400,
                                 MsgAlreadyVerified, user, NoJwt, NoJwt))
            /\ Done(c)
            /\ UNCHANGED users
       ELSE /\ users' = [users EXCEPT ![user].isEmailVerified = TRUE,
                                      ![user].emailVerifiedAt = now]
            /\ Goto(c, "verifyEmail:saved")
            /\ UNCHANGED <<resp, wire>>

\* await sendWelcomeEmail(user): sendMail delivers or fails.
verifyEmailWelcome(c, sendOk) ==
    /\ inflight[c].pc = "verifyEmail:saved"
    /\ outbox' = IF sendOk
                 THEN outbox \cup {Mail(inflight[c].user.email, "welcome", 0)}
                 ELSE outbox
    /\ Goto(c, "verifyEmail:mailed")
    /\ UNCHANGED <<now, ticks, users, tokens, nextSecret, refreshSecret,
                   held, resp, wire, streak, uses>>

\* verifyEmail after the mail, whose failure is caught: generateTokens
\* reads the clock; the pair is sent with the response.
verifyEmailReply(c) ==
    LET user == inflight[c].uid IN
    /\ inflight[c].pc = "verifyEmail:mailed"
    /\ Answer(c, ReplyLink(inflight[c].plain, "verifyEmail", 200,
                         MsgVerifiedOk, user,
                         generateAccessToken(user, now),
                         generateRefreshToken(user, now)))
    /\ Done(c)
    /\ UNCHANGED <<now, ticks, users, tokens, nextSecret, outbox,
                   refreshSecret, held, streak, uses>>

(***************************************************************************)
(* The auth service: resendVerificationEmail.                              *)
(***************************************************************************)
\* What resendVerificationEmail returns when no user has the e-mail ...
resendNotFoundMessage == MsgResendGeneric

\* ... and when it has sent the new link.
resendSentMessage == MsgResendSent

\* await User.findByEmail(email)
resendFind(c, email) ==
    /\ Free(c)
    /\ Start(c, [Idle EXCEPT !.pc = "resend:found", !.email = email,
                             !.uid = findByEmail(email),
                             !.user = userDoc(findByEmail(email))])
    /\ UNCHANGED <<now, ticks, users, tokens, nextSecret, outbox,
                   refreshSecret, held, resp, wire, streak, uses>>

\* "if (!user)", "if (user.isEmailVerified)", then
\* await Token.hasValidToken(user._id, 'email-verification').
resendHasValidToken(c) ==
    LET user == inflight[c].uid IN
    /\ inflight[c].pc = "resend:found"
    /\ UNCHANGED <<now, ticks, users, tokens, nextSecret, outbox,
                   refreshSecret, held, streak, uses>>
    /\ IF user = 0
       THEN /\ Answer(c, Reply("resendVerificationEmail", 200,
                             resendNotFoundMessage, 0, NoJwt, NoJwt))
            /\ Done(c)
       ELSE IF inflight[c].user.isEmailVerified
       THEN /\ Answer(c, Reply("resendVerificationEmail", 400,
                             MsgAlreadyVerified, user, NoJwt, NoJwt))
            /\ Done(c)
       ELSE /\ inflight' = [inflight EXCEPT
                              ![c].pc = "resend:checked",
                              ![c].found =
                                  hasValidToken(user, "email-verification")]
            /\ UNCHANGED <<resp, wire>>

\* "if (hasValidToken) throw", then Token.generateToken: the deleteMany.
resendDeleteTokens(c) ==
    LET user == inflight[c].uid IN
    /\ inflight[c].pc = "resend:checked"
    /\ UNCHANGED <<now, ticks, users, nextSecret, outbox, refreshSecret,
                   held, streak, uses>>
    /\ IF inflight[c].found
       THEN /\ Answer(c, Reply("resendVerificationEmail", 400,
                             MsgResendRecent, user, NoJwt, NoJwt))
            /\ Done(c)
            /\ UNCHANGED tokens
       ELSE /\ tokens' = deleteMany(user, "email-verification")
            /\ Goto(c, "resend:deleted")
            /\ UNCHANGED <<resp, wire>>

\* Token.generateToken: the create; the request keeps the plaintext.
resendIssue(c) ==
    /\ inflight[c].pc = "resend:deleted"
    /\ nextSecret <= MaxSecrets
    /\ tokens' = create(inflight[c].uid, "email-verification", VERIFY_TTL)
    /\ nextSecret' = nextSecret + 1
    /\ inflight' = [inflight EXCEPT ![c].pc = "resend:issued",
                                    ![c].plain = nextSecret]
    /\ UNCHANGED <<now, ticks, users, outbox, refreshSecret, held, resp,
                   wire, streak, uses>>

\* await sendVerificationEmail(user, token): sendMail delivers or fails;
\* the request keeps the outcome.
resendMail(c, sendOk) ==
    /\ inflight[c].pc = "resend:issued"
    /\ outbox' = IF sendOk
                 THEN outbox \cup {Mail(inflight[c].user.email,
                                        "email-verification",
                                        inflight[c].plain)}
                 ELSE outbox
    /\ inflight' = [inflight EXCEPT ![c].pc = "resend:mailed",
                                    ![c].found = sendOk]
    /\ UNCHANGED <<now, ticks, users, tokens, nextSecret, refreshSecret,
                   held, resp, wire, streak, uses>>

\* resendVerificationEmail after the mail: the return, or the Error of
\* sendEmail, which nothing catches before errorHandler; dev is
\* config.isDevelopment().
resendReply(c, dev) ==
    LET user == inflight[c].uid IN
    /\ inflight[c].pc = "resend:mailed"
    /\ IF inflight[c].found
       THEN Answer(c, Reply("resendVerificationEmail", 200,
                           resendSentMessage, user, NoJwt, NoJwt))
       ELSE Answer(c, Reply("resendVerificationEmail", 500,
                           internalErrorMessage(MsgSendFailed, dev), user,
                           NoJwt, NoJwt))
    /\ Done(c)
    /\ UNCHANGED <<now, ticks, users, tokens, nextSecret, outbox,
                   refreshSecret, held, streak, uses>>

(***************************************************************************)
(* The auth service: forgotPassword, resetPassword.                        *)
(***************************************************************************)
\* What forgotPassword returns when no user has the e-mail ...
forgotNotFoundMessage == MsgForgotGeneric

\* ... and when it has sent the reset link (first: what a reply that
\* acknowledged the mail would say).
forgotSentMessage_Specific == "Password reset email sent. Please check your inbox."

forgotSentMessage == MsgForgotGeneric

\* await User.findByEmail(email)
forgotFind(c, email) ==
    /\ Free(c)
    /\ Start(c, [Idle EXCEPT !.pc = "forgot:found", !.email = email,
                             !.uid = findByEmail(email),
                             !.user = userDoc(findByEmail(email))])
    /\ UNCHANGED <<now, ticks, users, tokens, nextSecret, outbox,
                   refreshSecret, held, resp, wire, streak, uses>>

\* "if (!user)", then await Token.hasValidToken(user._id, 'password-reset').
forgotHasValidToken(c) ==
    LET user == inflight[c].uid IN
    /\ inflight[c].pc = "forgot:found"
    /\ UNCHANGED <<now, ticks, users, tokens, nextSecret, outbox,
                   refreshSecret, held, streak, uses>>
    /\ IF user = 0
       THEN /\ Answer(c, Reply("forgotPassword", 200, forgotNotFoundMessage, 0,
                             NoJwt, NoJwt))
            /\ Done(c)
       ELSE /\ inflight' = [inflight EXCEPT
                              ![c].pc = "forgot:checked",
                              ![c].found =
                                  hasValidToken(user, "password-reset")]
            /\ UNCHANGED <<resp, wire>>

\* "if (hasValidToken) throw", then Token.generateToken: the deleteMany.
forgotDeleteTokens(c) ==
    LET user == inflight[c].uid IN
    /\ inflight[c].pc = "forgot:checked"
    /\ UNCHANGED <<now, ticks, users, nextSecret, outbox, refreshSecret,
                   held, streak, uses>>
    /\ IF inflight[c].found
       THEN /\ Answer(c, Reply("forgotPassword", 400, MsgForgotRecent, user,
                             NoJwt, NoJwt))
            /\ Done(c)
            /\ UNCHANGED tokens
       ELSE /\ tokens' = deleteMany(user, "password-reset")
            /\ Goto(c, "forgot:deleted")
            /\ UNCHANGED <<resp, wire>>

\* Token.generateToken: the create; the request keeps the plaintext.
forgotIssue(c) ==
    /\ inflight[c].pc = "forgot:deleted"
    /\ nextSecret <= MaxSecrets
    /\ tokens' = create(inflight[c].uid, "password-reset", RESET_TTL)
    /\ nextSecret' = nextSecret + 1
    /\ inflight' = [inflight EXCEPT ![c].pc = "forgot:issued",
                                    ![c].plain = nextSecret]
    /\ UNCHANGED <<now, ticks, users, outbox, refreshSecret, held, resp,
                   wire, streak, uses>>

\* await sendPasswordResetEmail(user, token): sendMail delivers or fails;
\* the request keeps the outcome.
forgotMail(c, sendOk) ==
    /\ inflight[c].pc = "forgot:issued"
    /\ outbox' = IF sendOk
                 THEN outbox \cup {Mail(inflight[c].user.email,
                                        "password-reset", inflight[c].plain)}
                 ELSE outbox
    /\ inflight' = [inflight EXCEPT ![c].pc = "forgot:mailed",
                                    ![c].found = sendOk]
    /\ UNCHANGED <<now, ticks, users, tokens, nextSecret, refreshSecret,
                   held, resp, wire, streak, uses>>

\* forgotPassword after the mail: the return, or the badRequest its catch
\* throws.
forgotReply(c) ==
    LET user == inflight[c].uid IN
    /\ inflight[c].pc = "forgot:mailed"
    /\ IF inflight[c].found
       THEN Answer(c, Reply("forgotPassword", 200, forgotSentMessage, user,
                           NoJwt, NoJwt))
       ELSE Answer(c, Reply("forgotPassword", 400, MsgForgotSendFailed, user,
                           NoJwt, NoJwt))
    /\ Done(c)
    /\ UNCHANGED <<now, ticks, users, tokens, nextSecret, outbox,
                   refreshSecret, held, streak, uses>>

\* pre('save') with a modified password on a stored user: the new hash, and
\* passwordChangedAt = Date.now() - 1000.
\* (A save that would stamp passwordChangedAt a second ahead instead.)
savePassword_Ahead(stored, password, t) ==
    [stored EXCEPT !.password = bcryptHash(password),
                   !.passwordChangedAt = t + PWD_SKEW]

\* (A save that would clear the brute-force guard with the password.)
savePassword_Unlocking(stored, password, t) ==
    [stored EXCEPT !.password = bcryptHash(password),
                   !.passwordChangedAt = t - PWD_SKEW,
                   !.loginAttempts = 0, !.lockUntil = NULL]

savePassword(stored, password, t) ==
    [stored EXCEPT !.password = bcryptHash(password),
                   !.passwordChangedAt = t - PWD_SKEW]

\* (A hook that would stamp on every save.)
preSave_Always(stored, paths, password, t) ==
    [stored EXCEPT !.passwordChangedAt = t - PWD_SKEW]

\* userSchema.pre('save'): the stored document after a save() of an existing
\* document whose modified paths are paths; password is the plain value
\* assigned to doc.password when that path is among them.
preSave(stored, paths, password, t) ==
    IF "password" \notin paths THEN stored
    ELSE savePassword(stored, password, t)

\* The schema's "minlength: [8, ...]" on password, which save() validates
\* before the pre-save hook hashes; ShortPassword has seven characters.
ShortPassword == "pw-7chr"

minlength(password) == password # ShortPassword

\* What a service function can be handed as a new password.
NewPasswords == Passwords \cup {ShortPassword}

\* Token.verifyToken(token, 'password-reset'): the findOne.
resetFindToken(c, plain, newPassword) ==
    /\ Free(c)
    /\ Start(c, [Idle EXCEPT !.pc = "reset:token", !.plain = plain,
                             !.newPassword = newPassword,
                             !.tokenDoc = findOne(plain, "password-reset")])
    /\ UNCHANGED <<now, ticks, users, tokens, nextSecret, outbox,
                   refreshSecret, held, resp, wire, streak, uses>>

\* Token.verifyToken from "if (!tokenDoc)" to its deleteOne: without a
\* document it returns null at once, which is answered 400; otherwise the
\* document, expired or not, is deleted and the request awaits the result.
resetDeleteToken(c) ==
    /\ inflight[c].pc = "reset:token"
    /\ verifyTokenDeletes(c)
    /\ IF inflight[c].tokenDoc = NoTokenDoc
       THEN /\ Answer(c, ReplyLink(inflight[c].plain, "resetPassword", 400,
                                 MsgBadResetLink, 0, NoJwt, NoJwt))
            /\ Done(c)
       ELSE /\ inflight' = [inflight EXCEPT
                              ![c].pc = "reset:userId",
                              ![c].uid = verifyTokenReturns(c)]
            /\ UNCHANGED <<resp, wire>>
    /\ UNCHANGED <<now, ticks, users, nextSecret, outbox, refreshSecret,
                   held, streak>>

\* Token.verifyToken returns: "if (!userId)" answers the null of an expired
\* link 400; otherwise await User.findById(userId).
resetFindUser(c) ==
    /\ inflight[c].pc = "reset:userId"
    /\ IF inflight[c].uid = 0
       THEN /\ Answer(c, ReplyLink(inflight[c].plain, "resetPassword", 400,
                                 MsgBadResetLink, 0, NoJwt, NoJwt))
            /\ Done(c)
       ELSE /\ inflight' = [inflight EXCEPT
                              ![c].pc = "reset:user",
                              ![c].found = findById(inflight[c].uid) # 0,
                              ![c].user = userDoc(inflight[c].uid)]
            /\ UNCHANGED <<resp, wire>>
    /\ UNCHANGED <<now, ticks, users, tokens, nextSecret, outbox,
                   refreshSecret, held, streak, uses>>

\* "if (!user)", user.password = newPassword and await user.save():
\* validation, then the pre-save hook, then the write.
resetSave(c) ==
    LET user == inflight[c].uid
        plain == inflight[c].plain
    IN
    /\ inflight[c].pc = "reset:user"
    /\ UNCHANGED <<now, ticks, tokens, nextSecret, outbox, refreshSecret,
                   held, streak, uses>>
    /\ IF ~inflight[c].found
       THEN /\ Answer(c, ReplyLink(plain, "resetPassword", 404,
                                 MsgUserNotFound, user, NoJwt, NoJwt))
            /\ Done(c)
            /\ UNCHANGED users
       ELSE IF ~minlength(inflight[c].newPassword)
       THEN /\ Answer(c, ReplyLink(plain, "resetPassword", 400,
                                 MsgPasswordTooShort, user, NoJwt, NoJwt))
            /\ Done(c)
            /\ UNCHANGED users
       ELSE /\ users' = [users EXCEPT
                           ![user] = preSave(users[user], {"password"},
                                             inflight[c].newPassword, now)]
            /\ Goto(c, "reset:saved")
            /\ UNCHANGED <<resp, wire>>

\* await Token.deleteUserTokens(userId)
resetDeleteUserTokens(c) ==
    /\ inflight[c].pc = "reset:saved"
    /\ tokens' = deleteUserTokens(inflight[c].uid)
    /\ Goto(c, "reset:cleared")
    /\ UNCHANGED <<now, ticks, users, nextSecret, outbox, refreshSecret,
                   held, resp, wire, streak, uses>>

\* resetPassword after deleteUserTokens has returned: the return.
resetReply(c) ==
    /\ inflight[c].pc = "reset:cleared"
    /\ Answer(c, ReplyLink(inflight[c].plain, "resetPassword", 200, MsgResetOk,
                         inflight[c].uid, NoJwt, NoJwt))
    /\ Done(c)
    /\ UNCHANGED <<now, ticks, users, tokens, nextSecret, outbox,
                   refreshSecret, held, streak, uses>>

(***************************************************************************)
(* The JWT service: verification.                                          *)
(***************************************************************************)
\* jwt.verify(token, secret, {issuer, audience}): the error it throws.
jwtVerify(tok, secret, t) ==
    IF tok.key # secret THEN "JsonWebTokenError"
    ELSE IF NowSec(t) >= tok.exp THEN "TokenExpiredError"
    ELSE "none"

\* verifyAccessToken: the message of the Unauthorized error it throws, or
\* "" when it returns the decoded payload.
verifyAccessToken(tok, t) ==
    IF jwtVerify(tok, JwtSecret, t) = "TokenExpiredError" THEN MsgTokenExpired
    ELSE IF jwtVerify(tok, JwtSecret, t) = "JsonWebTokenError"
    THEN MsgTokenInvalid
    ELSE IF tok.type # "access" THEN MsgTokenType
    ELSE ""

\* A verifyRefreshToken that would turn down the tokens issued before the
\* user's last password change.
verifyRefreshToken_Revoking(tok, t) ==
    IF tok.key # refreshSecret THEN MsgRefreshInvalid
    ELSE IF NowSec(t) >= tok.exp THEN MsgRefreshExpired
    ELSE IF tok.type # "refresh" THEN MsgTokenType
    ELSE IF /\ tok.id \in 1..Len(users)
            /\ changedPasswordAfter(users[tok.id], tok.iat)
    THEN MsgPasswordChanged
    ELSE ""

\* A verifyRefreshToken that would not look at the payload's type.
verifyRefreshToken_NoTypeCheck(tok, t) ==
    IF jwtVerify(tok, refreshSecret, t) = "TokenExpiredError"
    THEN MsgRefreshExpired
    ELSE IF jwtVerify(tok, refreshSecret, t) = "JsonWebTokenError"
    THEN MsgRefreshInvalid
    ELSE ""

verifyRefreshToken(tok, t) ==
    IF jwtVerify(tok, refreshSecret, t) = "TokenExpiredError"
    THEN MsgRefreshExpired
    ELSE IF jwtVerify(tok, refreshSecret, t) = "JsonWebTokenError"
    THEN MsgRefreshInvalid
    ELSE IF tok.type # "refresh" THEN MsgTokenType
    ELSE ""

\* The session tokens a client can present: those it holds and those of the
\* responses sent to it.
Presentable ==
    (held \cup {resp.access, resp.refresh}
          \cup {r.access : r \in wire} \cup {r.refresh : r \in wire})
       \ {NoJwt}

\* refreshAccessToken: verifyRefreshToken(refreshToken), then
\* await User.findById(decoded.id).
refreshFind(c, tok) ==
    /\ Free(c)
    /\ UNCHANGED <<now, ticks, users, tokens, nextSecret, outbox,
                   refreshSecret, held, streak, uses>>
    /\ IF verifyRefreshToken(tok, now) # ""
       THEN /\ Answer(c, ReplyTo(tok, "refreshAccessToken", 401,
                               verifyRefreshToken(tok, now), 0, NoJwt, NoJwt))
            /\ UNCHANGED inflight
       ELSE /\ Start(c, [Idle EXCEPT !.pc = "refresh:found", !.tok = tok,
                                     !.uid = tok.id,
                                     !.found = findById(tok.id) # 0,
                                     !.user = userDoc(tok.id)])
            /\ UNCHANGED <<resp, wire>>

\* "if (!user)", "if (!user.isEmailVerified)", then generateAccessToken,
\* which reads the clock; the new access token is sent with the response.
refreshReply(c) ==
    LET tok == inflight[c].tok
        user == inflight[c].uid
    IN
    /\ inflight[c].pc = "refresh:found"
    /\ Done(c)
    /\ UNCHANGED <<now, ticks, users, tokens, nextSecret, outbox,
                   refreshSecret, held, streak, uses>>
    /\ IF ~inflight[c].found
       THEN Answer(c, ReplyTo(tok, "refreshAccessToken", 401, MsgUserGone,
                           user, NoJwt, NoJwt))
       ELSE IF ~requireVerified(inflight[c].user)
       THEN Answer(c, ReplyTo(tok, "refreshAccessToken", 401,
                           MsgEmailNotVerified, user, NoJwt, NoJwt))
       ELSE Answer(c, ReplyTo(tok, "refreshAccessToken", 200, "", user,
                           generateAccessToken(user, now), NoJwt))

(***************************************************************************)
(* The authenticate middleware and the routes behind it.                   *)
(***************************************************************************)
\* What authenticate(req) would answer if nothing else touched the store
\* while it runs: the message of the Unauthorized error it throws, or ""
\* when it calls next().  NoJwt stands for a request without a bearer token.
authenticateError(tok, t) ==
    IF tok = NoJwt THEN MsgNotLoggedIn
    ELSE IF verifyAccessToken(tok, t) # "" THEN verifyAccessToken(tok, t)
    ELSE IF findById(tok.id) = 0 THEN MsgTokenUserGone
    ELSE IF changedPasswordAfter(
                Select(users[tok.id], {"passwordChangedAt"}), tok.iat)
    THEN MsgPasswordChanged
    ELSE IF ~users[tok.id].isEmailVerified THEN MsgVerifyFirst
    ELSE ""

MsgProfileUpdated == "Profile updated successfully"
MsgNullCompare == "Cannot read properties of null (reading 'comparePassword')"
MsgNullSave == "Cannot read properties of null (reading 'save')"
MsgNullFirstName == "Cannot set properties of null (setting 'firstName')"
MsgNullLastName == "Cannot set properties of null (setting 'lastName')"

\* The body fields of PATCH /profile that are not undefined.
ProfilePaths == SUBSET {"firstName", "lastName"}

MsgLoggedOut == "Logged out successfully"

\* The routes registered after router.use(authenticate); "authenticate"
\* stands for GET /me.
Routes == {"authenticate", "logout", "updatePassword", "updateProfile",
           "deleteAccount", "googleLogin"}

\* What a request to one of these routes carries besides its bearer token.
Body(route, currentPassword, newPassword, paths) ==
    [route |-> route, currentPassword |-> currentPassword,
     newPassword |-> newPassword, paths |-> paths]

\* Line of router.use(authMiddleware.authenticate) in authRoutes.js ...
AuthenticateUseLine == 121

\* ... and of router.post('/google', googleAuthController.googleLogin).
GoogleRouteLine == 170

BehindAuthenticate(routeLine) == routeLine > AuthenticateUseLine

\* authenticate up to await User.findById(decoded.id)
\* .select('+passwordChangedAt'), for a request with bearer token tok.
authenticateFind(c, tok, body) ==
    /\ Free(c)
    /\ UNCHANGED <<now, ticks, users, tokens, nextSecret, outbox,
                   refreshSecret, held, streak, uses>>
    /\ IF tok = NoJwt
       THEN /\ Answer(c, ReplyTo(tok, body.route, 401, MsgNotLoggedIn, 0,
                               NoJwt, NoJwt))
            /\ UNCHANGED inflight
       ELSE IF verifyAccessToken(tok, now) # ""
       THEN /\ Answer(c, ReplyTo(tok, body.route, 401,
                               verifyAccessToken(tok, now), 0, NoJwt, NoJwt))
            /\ UNCHANGED inflight
       ELSE /\ Start(c, [Idle EXCEPT
                           !.pc = "authenticate:found", !.tok = tok,
                           !.uid = tok.id, !.doc = body,
                           !.found = findById(tok.id) # 0,
                           !.user = IF findById(tok.id) = 0 THEN NoDoc
                                    ELSE Select(users[tok.id],
                                                {"passwordChangedAt"})])
            /\ UNCHANGED <<resp, wire>>

\* The message of the error authenticate throws after the lookup, or "".
authenticateChecks(c) ==
    IF ~inflight[c].found THEN MsgTokenUserGone
    ELSE IF changedPasswordAfter(inflight[c].user, inflight[c].tok.iat)
    THEN MsgPasswordChanged
    ELSE IF ~inflight[c].user.isEmailVerified THEN MsgVerifyFirst
    ELSE ""

\* authenticate from "if (!user)" to next(), and the controller up to its
\* first store operation: logout has none and answers; deleteAccount runs
\* findByIdAndUpdate(req.user.id, { isActive: false }); getMe (through
\* getCurrentUser), updatePassword and updateProfile load the user.
authenticateNext(c) ==
    LET tok == inflight[c].tok
        uid == inflight[c].uid
        route == inflight[c].doc.route
    IN
    /\ inflight[c].pc = "authenticate:found"
    /\ route # "googleLogin"
    /\ UNCHANGED <<now, ticks, tokens, nextSecret, outbox, refreshSecret,
                   held, streak, uses>>
    /\ IF authenticateChecks(c) # ""
       THEN /\ Answer(c, ReplyTo(tok, route, 401, authenticateChecks(c), 0,
                               NoJwt, NoJwt))
            /\ Done(c)
            /\ UNCHANGED users
       ELSE IF route = "logout"
       THEN /\ Answer(c, ReplyTo(tok, route, 200, MsgLoggedOut, uid, NoJwt,
                               NoJwt))
            /\ Done(c)
            /\ UNCHANGED users
       ELSE IF route = "deleteAccount"
       THEN /\ users' = IF findById(uid) = 0 THEN users
                        ELSE [users EXCEPT ![uid].isActive = FALSE]
            /\ Goto(c, "deleteAccount:updated")
            /\ UNCHANGED <<resp, wire>>
       ELSE /\ inflight' = [inflight EXCEPT
                              ![c].pc = route,
                              ![c].found = findById(uid) # 0,
                              ![c].user =
                                 IF findById(uid) = 0 THEN NoDoc
                                 ELSE IF route = "updatePassword"
                                 THEN Select(users[uid], {"password"})
                                 ELSE Select(users[uid], {})]
            /\ UNCHANGED <<users, resp, wire>>

\* getCurrentUser after its findById: "if (!user)" throws notFound,
\* otherwise getMe answers with the user.
getMeReply(c) ==
    LET tok == inflight[c].tok
        uid == inflight[c].uid
    IN
    /\ inflight[c].pc = "authenticate"
    /\ IF ~inflight[c].found
       THEN Answer(c, ReplyTo(tok, "authenticate", 404, MsgUserNotFound, uid,
                           NoJwt, NoJwt))
       ELSE Answer(c, ReplyTo(tok, "authenticate", 200, "", uid, NoJwt,
                           NoJwt))
    /\ Done(c)
    /\ UNCHANGED <<now, ticks, users, tokens, nextSecret, outbox,
                   refreshSecret, held, streak, uses>>

\* deleteAccount after findByIdAndUpdate has returned: the 200.
deleteAccountReply(c) ==
    /\ inflight[c].pc = "deleteAccount:updated"
    /\ Answer(c, ReplyTo(inflight[c].tok, "deleteAccount", 200,
                       MsgAccountDeleted, inflight[c].uid, NoJwt, NoJwt))
    /\ Done(c)
    /\ UNCHANGED <<now, ticks, users, tokens, nextSecret, outbox,
                   refreshSecret, held, streak, uses>>

\* updatePassword from comparePassword to await user.save(); user is null
\* when the account was deleted since authenticate found it.
updatePasswordSave(c, dev) ==
    LET tok == inflight[c].tok
        uid == inflight[c].uid
        body == inflight[c].doc
    IN
    /\ inflight[c].pc = "updatePassword"
    /\ UNCHANGED <<now, ticks, tokens, nextSecret, outbox, refreshSecret,
                   held, streak, uses>>
    /\ IF ~inflight[c].found
       THEN /\ Answer(c, ReplyTo(tok, "updatePassword", 500,
                               internalErrorMessage(MsgNullCompare, dev), uid,
                               NoJwt, NoJwt))
            /\ Done(c)
            /\ UNCHANGED users
       ELSE IF ~comparePassword(inflight[c].user, body.currentPassword)
       THEN /\ Answer(c, ReplyTo(tok, "updatePassword", 401, MsgWrongCurrent,
                               uid, NoJwt, NoJwt))
            /\ Done(c)
            /\ UNCHANGED users
       ELSE IF ~minlength(body.newPassword)
       THEN /\ Answer(c, ReplyTo(tok, "updatePassword", 400,
                               MsgPasswordTooShort, uid, NoJwt, NoJwt))
            /\ Done(c)
            /\ UNCHANGED users
       ELSE /\ users' = [users EXCEPT
                           ![uid] = preSave(users[uid], {"password"},
                                            body.newPassword, now)]
            /\ Goto(c, "updatePassword:saved")
            /\ UNCHANGED <<resp, wire>>

\* updatePassword from generateTokens(user._id), which reads the clock, on.
updatePasswordReply(c) ==
    LET uid == inflight[c].uid IN
    /\ inflight[c].pc = "updatePassword:saved"
    /\ Answer(c, ReplyTo(inflight[c].tok, "updatePassword", 200,
                       MsgPasswordUpdated, uid,
                       generateAccessToken(uid, now),
                       generateRefreshToken(uid, now)))
    /\ Done(c)
    /\ UNCHANGED <<now, ticks, users, tokens, nextSecret, outbox,
                   refreshSecret, held, streak, uses>>

\* The TypeError of updateProfile on a user that is null.
nullProfileMessage(paths) ==
    IF "firstName" \in paths THEN MsgNullFirstName
    ELSE IF "lastName" \in paths THEN MsgNullLastName
    ELSE MsgNullSave

\* updateProfile from its two assignments to await user.save().  The
\* names are not among the fields the model keeps of a user.
updateProfileSave(c, dev) ==
    LET tok == inflight[c].tok
        uid == inflight[c].uid
        paths == inflight[c].doc.paths
    IN
    /\ inflight[c].pc = "updateProfile"
    /\ UNCHANGED <<now, ticks, tokens, nextSecret, outbox, refreshSecret,
                   held, streak, uses>>
    /\ IF ~inflight[c].found
       THEN /\ Answer(c, ReplyTo(tok, "updateProfile", 500,
                               internalErrorMessage(nullProfileMessage(paths),
                                                    dev),
                               uid, NoJwt, NoJwt))
            /\ Done(c)
            /\ UNCHANGED users
       ELSE /\ users' = [users EXCEPT
                           ![uid] = preSave(users[uid], paths, UNDEF, now)]
            /\ Goto(c, "updateProfile:saved")
            /\ UNCHANGED <<resp, wire>>

\* updateProfile after save() has returned: the 200.
updateProfileReply(c) ==
    /\ inflight[c].pc = "updateProfile:saved"
    /\ Answer(c, ReplyTo(inflight[c].tok, "updateProfile", 200,
                       MsgProfileUpdated, inflight[c].uid, NoJwt, NoJwt))
    /\ Done(c)
    /\ UNCHANGED <<now, ticks, users, tokens, nextSecret, outbox,
                   refreshSecret, held, streak, uses>>

(***************************************************************************)
(* The Google auth service and its route.                                  *)
(***************************************************************************)
\* The body of POST /api/auth/google, and what the identity provider will
\* answer for its idToken.
GoogleBody(idToken, valid, email, emailVerified) ==
    [route |-> "googleLogin", idToken |-> idToken, valid |-> valid,
     email |-> email, emailVerified |-> emailVerified]

\* googleAuth(idToken) up to await verifyGoogleToken(idToken), for request
\* c: the tokeninfo request (axios.get) is sent.  valid, email and emailVerified are
\* what the identity provider will answer for idToken; the request keeps
\* the answer.
verifyGoogleToken(c, valid, email, emailVerified) ==
    /\ Start(c, [Idle EXCEPT !.pc = "google:verified", !.email = email,
                             !.doc = GoogleBody(TRUE, valid, email,
                                                emailVerified)])
    /\ UNCHANGED <<now, ticks, users, tokens, nextSecret, outbox,
                   refreshSecret, held, resp, wire, streak, uses>>

\* verifyGoogleToken returns or throws badRequest; then
\* await User.findByEmail(googleUser.email).
googleAuthLookup(c) ==
    LET email == inflight[c].email IN
    /\ inflight[c].pc = "google:verified"
    /\ UNCHANGED <<now, ticks, users, tokens, nextSecret, outbox,
                   refreshSecret, held, streak, uses>>
    /\ IF ~inflight[c].doc.valid
       THEN /\ Answer(c, Reply("googleAuth", 400, MsgBadGoogleToken, 0,
                             NoJwt, NoJwt))
            /\ Done(c)
       ELSE /\ inflight' = [inflight EXCEPT
                              ![c].pc = "google:found",
                              ![c].uid = findByEmail(email),
                              ![c].user = userDoc(findByEmail(email))]
            /\ UNCHANGED <<resp, wire>>

\* A call of googleAuth(idToken) by a new request.
googleAuthFind(c, valid, email, emailVerified) ==
    /\ Free(c)
    /\ verifyGoogleToken(c, valid, email, emailVerified)

\* googleAuth from "if (user)" to its next store operation: the save() of a
\* user found unverified, resetLoginAttempts() of one found verified, or
\* User.create({...}), whose password is Math.random().toString(36)
\* .slice(-16); longEnough tells whether that string has the eight
\* characters the schema asks for.
googleAuthUpdate(c, longEnough) ==
    LET user == inflight[c].uid
        email == inflight[c].email
    IN
    /\ inflight[c].pc = "google:found"
    /\ UNCHANGED <<now, ticks, tokens, nextSecret, outbox, refreshSecret,
                   held, streak, uses>>
    /\ IF user # 0 /\ ~inflight[c].user.isEmailVerified
       THEN /\ users' = [users EXCEPT ![user].isEmailVerified = TRUE,
                                      ![user].emailVerifiedAt = now]
            /\ Goto(c, "google:saved")
            /\ UNCHANGED <<resp, wire>>
       ELSE IF user # 0
       THEN /\ users' = [users EXCEPT
                           ![user] = resetLoginAttempts(users[user], now)]
            /\ Goto(c, "google:reset")
            /\ UNCHANGED <<resp, wire>>
       ELSE IF ~longEnough
       THEN /\ Answer(c, Reply("googleAuth", 400, MsgPasswordTooShort, 0,
                             NoJwt, NoJwt))
            /\ Done(c)
            /\ UNCHANGED users
       ELSE IF EmailTaken(email)
       THEN /\ Answer(c, Reply("googleAuth", 409, MsgEmailExists, 0,
                             NoJwt, NoJwt))
            /\ Done(c)
            /\ UNCHANGED users
       ELSE /\ Len(users) < MaxUsers
            /\ users' = Append(users, NewUser(email, "google-random-pw", TRUE,
                                              Lower(email)))
            /\ inflight' = [inflight EXCEPT ![c].pc = "google:reset",
                                            ![c].uid = Len(users) + 1]
            /\ UNCHANGED <<resp, wire>>

\* await user.resetLoginAttempts() after the save().
googleAuthReset(c) ==
    LET user == inflight[c].uid IN
    /\ inflight[c].pc = "google:saved"
    /\ users' = [users EXCEPT ![user] = resetLoginAttempts(users[user], now)]
    /\ Goto(c, "google:reset")
    /\ UNCHANGED <<now, ticks, tokens, nextSecret, outbox, refreshSecret,
                   held, resp, wire, streak, uses>>

\* googleAuth from generateTokens(user._id), which reads the clock, on; the
\* pair is sent with the response.
googleAuthReply(c) ==
    LET user == inflight[c].uid IN
    /\ inflight[c].pc = "google:reset"
    /\ Answer(c, Reply("googleAuth", 200, MsgLoginOk, user,
                     generateAccessToken(user, now),
                     generateRefreshToken(user, now)))
    /\ Done(c)
    /\ UNCHANGED <<now, ticks, users, tokens, nextSecret, outbox,
                   refreshSecret, held, streak, uses>>

\* The googleLogin controller: "if (!idToken)", then googleAuth(idToken).
googleLoginController(c, tok, body) ==
    IF ~body.idToken
    THEN /\ Answer(c, ReplyTo(tok, "googleLogin", 400, MsgNoIdToken, 0,
                            NoJwt, NoJwt))
         /\ Done(c)
         /\ UNCHANGED <<now, ticks, users, tokens, nextSecret, outbox,
                        refreshSecret, held, streak, uses>>
    ELSE verifyGoogleToken(c, body.valid, body.email, body.emailVerified)

\* POST /api/auth/google with bearer token tok (NoJwt: no Authorization
\* header).  Routes are matched in the order of their registration, so
\* router.use(authenticate) runs first for a route registered after it.
googleLogin(c, tok, body) ==
    /\ Free(c)
    /\ IF BehindAuthenticate(GoogleRouteLine)
       THEN authenticateFind(c, tok, body)
       ELSE googleLoginController(c, tok, body)

\* authenticate from "if (!user)" to next() for POST /api/auth/google, and
\* the controller behind it.
googleLoginNext(c) ==
    /\ inflight[c].pc = "authenticate:found"
    /\ inflight[c].doc.route = "googleLogin"
    /\ IF authenticateChecks(c) # ""
       THEN /\ Answer(c, ReplyTo(inflight[c].tok, "googleLogin", 401,
                               authenticateChecks(c), 0, NoJwt, NoJwt))
            /\ Done(c)
            /\ UNCHANGED <<now, ticks, users, tokens, nextSecret, outbox,
                           refreshSecret, held, streak, uses>>
       ELSE googleLoginController(c, inflight[c].tok, inflight[c].doc)

(***************************************************************************)
(* The Token statics called directly.                                      *)
(***************************************************************************)
\* Plaintexts the store hands out in these runs: every one of Plains.
MaxIssues == MaxSecrets + 1

\* Token.generateToken(userId, type, expiresInMs) by request c: the
\* deleteMany ...
generateDelete(c, userId, type, expiresInMs) ==
    /\ inflight[c].pc = "idle"
    /\ nextSecret + Cardinality({g \in DOMAIN inflight :
                                   inflight[g].pc = "generate:deleted"})
          <= MaxIssues
    /\ tokens' = deleteMany(userId, type)
    /\ Start(c, [Idle EXCEPT !.pc = "generate:deleted", !.uid = userId,
                             !.doc = [type |-> type,
                                      expiresInMs |-> expiresInMs]])
    /\ UNCHANGED <<now, ticks, users, nextSecret, outbox, refreshSecret,
                   held, resp, wire, streak, uses>>

\* ... its randomBytes, Date.now() + expiresInMs and this.create(...) ...
generateCreate(c) ==
    /\ inflight[c].pc = "generate:deleted"
    /\ tokens' = create(inflight[c].uid, inflight[c].doc.type,
                        inflight[c].doc.expiresInMs)
    /\ nextSecret' = nextSecret + 1
    /\ inflight' = [inflight EXCEPT ![c].pc = "generate:created",
                                    ![c].plain = nextSecret]
    /\ UNCHANGED <<now, ticks, users, outbox, refreshSecret, held, resp,
                   wire, streak, uses>>

\* ... and "return token" once the create has returned.
generateReturn(c) ==
    /\ inflight[c].pc = "generate:created"
    /\ Done(c)
    /\ resp' = Reply("generateToken", 0, inflight[c].doc.type,
                     inflight[c].uid, NoJwt, NoJwt)
    /\ UNCHANGED <<now, ticks, users, tokens, nextSecret, outbox,
                   refreshSecret, held, wire, streak, uses>>

\* Token.verifyToken(plain, type) by request c: the findOne ...
verifyTokenFind(c, plain, type) ==
    /\ inflight[c].pc = "idle"
    /\ Start(c, [Idle EXCEPT !.pc = "verifyToken:token", !.plain = plain,
                             !.tokenDoc = findOne(plain, type),
                             !.doc = [type |-> type]])
    /\ UNCHANGED <<now, ticks, users, tokens, nextSecret, outbox,
                   refreshSecret, held, resp, wire, streak, uses>>

\* ... from "if (!tokenDoc)", which returns null at once, to its
\* deleteOne; the request keeps what it is going to return ...
verifyTokenDelete(c) ==
    /\ inflight[c].pc = "verifyToken:token"
    /\ verifyTokenDeletes(c)
    /\ IF inflight[c].tokenDoc = NoTokenDoc
       THEN /\ Done(c)
            /\ resp' = ReplyLink(inflight[c].plain, "verifyToken", 0,
                                 inflight[c].doc.type, 0, NoJwt, NoJwt)
       ELSE /\ inflight' = [inflight EXCEPT
                              ![c].pc = "verifyToken:deleted",
                              ![c].uid = verifyTokenReturns(c)]
            /\ UNCHANGED resp
    /\ UNCHANGED <<now, ticks, users, nextSecret, outbox, refreshSecret,
                   held, wire, streak>>

\* ... and its return once the deleteOne has returned.
verifyTokenReturn(c) ==
    /\ inflight[c].pc = "verifyToken:deleted"
    /\ Done(c)
    /\ resp' = ReplyLink(inflight[c].plain, "verifyToken", 0,
                         inflight[c].doc.type, inflight[c].uid, NoJwt, NoJwt)
    /\ UNCHANGED <<now, ticks, users, tokens, nextSecret, outbox,
                   refreshSecret, held, wire, streak, uses>>

\* Token.deleteUserTokens(userId) or (userId, type) by request c: its one
\* deleteMany ...
storeDeleteUserTokens(c, userId, typed, type) ==
    /\ inflight[c].pc = "idle"
    /\ tokens' = IF typed THEN deleteUserTokensOfType(userId, type)
                 ELSE deleteUserTokens(userId)
    /\ Start(c, [Idle EXCEPT !.pc = "deleteUserTokens:deleted",
                             !.uid = userId,
                             !.doc = [type |-> IF typed THEN type ELSE ""]])
    /\ UNCHANGED <<now, ticks, users, nextSecret, outbox, refreshSecret,
                   held, resp, wire, streak, uses>>

\* ... and its return.
storeDeleteUserTokensReturn(c) ==
    /\ inflight[c].pc = "deleteUserTokens:deleted"
    /\ Done(c)
    /\ resp' = Reply("deleteUserTokens", 0, inflight[c].doc.type,
                     inflight[c].uid, NoJwt, NoJwt)
    /\ UNCHANGED <<now, ticks, users, tokens, nextSecret, outbox,
                   refreshSecret, held, wire, streak, uses>>

\* Token.cleanupExpired(): deleteMany({ expiresAt: { $lt: new Date() } }).
cleanupExpired ==
    /\ tokens' = {t \in tokens : ~(t.expiresAt < now)}
    /\ UNCHANGED <<now, ticks, users, nextSecret, outbox, refreshSecret,
                   held, resp, wire, streak, inflight, uses>>

\* createdAt's "expires: 86400": seconds after createdAt at which MongoDB's
\* TTL monitor may remove a document.
TTL_INDEX_S == 86400

\* A pass of the TTL monitor.
ttlExpire ==
    /\ \E t \in tokens : t.createdAt + TTL_INDEX_S * MS_PER_SEC <= now
    /\ tokens' = {t \in tokens : t.createdAt + TTL_INDEX_S * MS_PER_SEC > now}
    /\ UNCHANGED <<now, ticks, users, nextSecret, outbox, refreshSecret,
                   held, resp, wire, streak, inflight, uses>>

(***************************************************************************)
(* The client: the response interceptor of the axios instance api and the  *)
(* functions that await its calls.  The browser's localStorage is held.    *)
(* A response takes effect in the browser when it arrives, not when the    *)
(* server sends it: responses on their way are in wire, and arrive in any  *)
(* order.                                                                  *)
(***************************************************************************)
HttpStatuses == {200, 401, 500}

\* localStorage.getItem('accessToken' / 'refreshToken'); NoJwt for null.
localStorageGet(type) ==
    IF \E t \in held : t.type = type
    THEN CHOOSE t \in held : t.type = type
    ELSE NoJwt

\* localStorage.setItem('accessToken', token).
localStorageSet(token) == {t \in held : t.type # token.type} \cup {token}

\* (An interceptor that would not look at the mark.)
shouldRefresh_Always(status, retry) == status = 401

\* error.response?.status === 401 && !originalRequest._retry
shouldRefresh(status, retry) == status = 401 /\ ~retry

\* The functions of the client that await a call of authAPI, by the
\* operation called: AuthContext.login, the verifyEmail effect of the
\* VerifyEmail page, handleSuccess of GoogleSignInButton, and for GET /me
\* the initAuth effect and refreshUser of AuthContext.  "page" stands for a
\* caller that leaves the storage alone.
Awaiting(op) ==
    CASE op = "login" -> {"login"}
      [] op = "verifyEmail" -> {"verifyEmail"}
      [] op \in {"googleAuth", "googleLogin"} -> {"handleSuccess"}
      [] op = "authenticate" -> {"initAuth", "refreshUser"}
      [] op = "logout" -> {"logout"}
      [] OTHER -> {"page"}

\* What the function that awaited a call does to the storage once the call
\* has settled, resolved with the tokens access and refresh or rejected:
\* login, verifyEmail and handleSuccess store the pair of a resolved call;
\* logout clears the storage in its finally; initAuth clears it in its
\* catch.
settled(caller, resolved, access, refresh) ==
    IF caller = "logout" THEN {}
    ELSE IF ~resolved /\ caller = "initAuth" THEN {}
    ELSE IF resolved /\ caller \in {"login", "verifyEmail", "handleSuccess"}
    THEN Keep({access, refresh})
    ELSE held

\* The browser receives response r of the server.  The answer of the
\* refresh endpoint goes to the interceptor that called it: the new access
\* token is stored, or the catch clears the storage.  Every other answer
\* passes the interceptor of api (retry: the request it answers was marked
\* _retry) on its way to caller: a 2xx is returned as it is; on a 401 that
\* is not marked the storage is cleared when it holds no refresh token, and
\* otherwise the refresh endpoint is called and the caller waits on; every
\* other error is rejected.
receive(r, caller, retry) ==
    /\ r \in wire
    /\ wire' = wire \ {r}
    /\ held' =
         IF r.op = "refreshAccessToken"
         THEN IF r.code = 200 THEN localStorageSet(r.access) ELSE {}
         ELSE IF r.code \in {200, 201}
         THEN settled(caller, TRUE, r.access, r.refresh)
         ELSE IF ~shouldRefresh(r.code, retry)
         THEN settled(caller, FALSE, NoJwt, NoJwt)
         ELSE IF localStorageGet("refresh") = NoJwt THEN {}
         ELSE held
    /\ UNCHANGED <<now, ticks, users, tokens, nextSecret, outbox,
                   refreshSecret, resp, streak, inflight, uses>>

\* The arrival of any response on its way.
Receive ==
    \E r \in wire :
       \E caller \in Awaiting(r.op), retry \in BOOLEAN :
          receive(r, caller, retry)

\* The callers of the page whose continuation looks at the outcome only:
\* the initAuth effect and refreshUser (GET /me), and logout.
ApiCallers == {"initAuth", "refreshUser", "logout"}

\* The config of a request and what became of it: _retry, the
\* Authorization header, how often it was sent and how often the refresh
\* endpoint was called for it, and the status of its last response.
RequestConfig(retry, bearer, sends, refreshes, status) ==
    [_retry |-> retry, Authorization |-> bearer, sends |-> sends,
     refreshes |-> refreshes, status |-> status]

\* api(config) called by caller: the request interceptor adds the stored
\* access token.  initAuth calls getMe only when an access token (and a
\* user) is stored.
apiRequest(c, caller) ==
    /\ inflight[c].pc = "idle"
    /\ caller \in ApiCallers
    /\ caller = "initAuth" => localStorageGet("access") # NoJwt
    /\ inflight' = [inflight EXCEPT ![c] =
                      [Idle EXCEPT !.pc = "sent",
                                   !.caller = caller,
                                   !.doc = RequestConfig(
                                               FALSE,
                                               localStorageGet("access"),
                                               1, 0, 0)]]
    /\ UNCHANGED <<now, ticks, users, tokens, nextSecret, outbox,
                   refreshSecret, held, resp, wire, streak, uses>>

\* The response interceptor on the answer to request c, and the caller's
\* continuation when the call settles.  A 2xx is returned as it is.  On a
\* 401 that is not marked, the request is marked and, with a stored refresh
\* token, axios.post(.../auth/refresh-token) is called; without one the
\* catch clears the storage and rejects.  Every other error is rejected.
apiResponse(c, status) ==
    LET req == inflight[c].doc
        caller == inflight[c].caller
    IN
    /\ inflight[c].pc = "sent"
    /\ UNCHANGED <<now, ticks, users, tokens, nextSecret, outbox,
                   refreshSecret, resp, wire, streak, uses>>
    /\ IF status = 200
       THEN /\ inflight' = [inflight EXCEPT
                              ![c].pc = "resolved", ![c].doc.status = status]
            /\ held' = settled(caller, TRUE, NoJwt, NoJwt)
       ELSE IF ~shouldRefresh(status, req._retry)
       THEN /\ inflight' = [inflight EXCEPT
                              ![c].pc = "rejected", ![c].doc.status = status]
            /\ held' = settled(caller, FALSE, NoJwt, NoJwt)
       ELSE IF localStorageGet("refresh") = NoJwt
       THEN /\ inflight' = [inflight EXCEPT
                              ![c].pc = "rejected", ![c].doc.status = status,
                              ![c].doc._retry = TRUE]
            /\ held' = {}
       ELSE /\ req.refreshes < MaxRefreshes
            /\ inflight' = [inflight EXCEPT
                              ![c].pc = "refreshing",
                              ![c].doc.status = status,
                              ![c].doc._retry = TRUE,
                              ![c].doc.refreshes = req.refreshes + 1,
                              ![c].uid = localStorageGet("refresh").id]
            /\ UNCHANGED held

\* The refresh endpoint answers request c's interceptor, which sent the
\* refresh token of inflight[c].uid: with a new access token, signed when
\* the server answers, or with an error.
refreshAnswer(c, ok) ==
    /\ inflight[c].pc = "refreshing"
    /\ inflight' = [inflight EXCEPT
                      ![c].pc = "refreshed",
                      ![c].tok = IF ok
                                 THEN generateAccessToken(inflight[c].uid, now)
                                 ELSE NoJwt]
    /\ UNCHANGED <<now, ticks, users, tokens, nextSecret, outbox,
                   refreshSecret, held, resp, wire, streak, uses>>

\* The answer of the refresh endpoint arrives at request c's interceptor.
\* With a new access token the token is stored and the original request is
\* sent again through api; otherwise the catch clears the storage and
\* rejects, and the caller's continuation finds the storage empty.
refreshResponse(c) ==
    LET req == inflight[c].doc
        accessToken == inflight[c].tok
        ok == inflight[c].tok # NoJwt
    IN
    /\ inflight[c].pc = "refreshed"
    /\ UNCHANGED <<now, ticks, users, tokens, nextSecret, outbox,
                   refreshSecret, resp, wire, streak, uses>>
    /\ IF ok
       THEN /\ held' = localStorageSet(accessToken)
            /\ inflight' = [inflight EXCEPT
                              ![c].pc = "sent",
                              ![c].doc.Authorization = accessToken,
                              ![c].doc.sends = req.sends + 1]
       ELSE /\ held' = {}
            /\ inflight' = [inflight EXCEPT ![c].pc = "rejected"]

(***************************************************************************)
(* The clock.                                                              *)
(***************************************************************************)
Tick(d) ==
    /\ ticks < MaxTicks
    /\ now' = now + d
    /\ ticks' = ticks + 1
    /\ UNCHANGED <<users, tokens, nextSecret, outbox, refreshSecret, held,
                   resp, wire, streak, inflight, uses>>

(***************************************************************************)
(* SpecGuard: the brute-force guard.  The store already holds one user,    *)
(* in any lock state the schema admits.                                    *)
(***************************************************************************)
SeedLocks == {<<0, NULL>>,
              <<MAX_LOGIN_ATTEMPTS, T0 + LOCK_TIME>>,
              <<MAX_LOGIN_ATTEMPTS, T0 - 1>>}

SeedUser(verified, seed) ==
    [email |-> "a@x.com", password |-> bcryptHash("pw-right-1"),
     isEmailVerified |-> verified,
     emailVerifiedAt |-> IF verified THEN T0 - 1 ELSE NULL,
     isActive |-> TRUE, passwordChangedAt |-> NULL, lastLoginAt |-> NULL,
     loginAttempts |-> seed[1], lockUntil |-> seed[2], googleId |-> NULL]

InitBase ==
    /\ now = T0
    /\ ticks = 0
    /\ tokens = {}
    /\ nextSecret = 1
    /\ outbox = {}
    /\ held = {}
    /\ resp = NoResp
    /\ wire = {}
    /\ streak = 0
    /\ inflight = [c \in Clients |-> Idle]
    /\ uses = [p \in Plains |-> 0]

InitGuard ==
    /\ InitBase
    /\ refreshSecret = "jwt-refresh-secret"
    /\ \E v \in BOOLEAN, s \in SeedLocks : users = <<SeedUser(v, s)>>

GuardSteps == {1, LOCK_TIME}

(***************************************************************************)
(* SpecGuard: login calls that do not overlap.                             *)
(* SpecGuardConc: login calls of two requests that may.                    *)
(***************************************************************************)
NextGuard ==
    \/ \E c \in Callers, e \in Emails, p \in Passwords : loginFind(c, e, p)
    \/ \E c \in Callers : loginUpdate(c)
    \/ \E c \in Callers : loginReject(c)
    \/ \E c \in Callers : loginReply(c)
    \/ Receive
    \/ \E d \in GuardSteps : Tick(d)

SpecGuard == InitGuard /\ [][NextGuard]_vars

NextGuardConc ==
    \/ \E c \in Clients, e \in Emails, p \in Passwords : loginFind(c, e, p)
    \/ \E c \in Clients : loginUpdate(c)
    \/ \E c \in Clients : loginReject(c)
    \/ \E c \in Clients : loginReply(c)
    \/ Receive
    \/ \E d \in GuardSteps : Tick(d)

SpecGuardConc == InitGuard /\ [][NextGuardConc]_vars

(***************************************************************************)
(* The brute-force guard: claims C1 to C4, C11, C12, C30 and C35.          *)
(***************************************************************************)
\* The last answer is that of a login for a user, and no login that has
\* counted a wrong password is still to be answered: streak counts the
\* failures up to that answer.
LastLogin ==
    /\ resp.op = "login"
    /\ resp.uid # 0
    /\ \A c \in Clients : inflight[c].pc # "login:counted"

\* C1: for a verified, active, unlocked user whose stored loginAttempts is
\* 0, once the fifth consecutive wrong-password login has made its update
\* the stored loginAttempts is 5, lockUntil is the time of that update plus
\* LOCK_TIME and the account is locked; after fewer than five such calls
\* lockUntil is unset.
C1_FifthFailureLocks ==
    [][\A c \in Clients :
         LET uid == inflight[c].uid IN
         /\ (loginUpdate(c) /\ streak' = MAX_LOGIN_ATTEMPTS) =>
               /\ users'[uid].loginAttempts = MAX_LOGIN_ATTEMPTS
               /\ users'[uid].lockUntil = now + LOCK_TIME
               /\ isLocked(Select(users'[uid], {"lockUntil"}), now)
         /\ (loginUpdate(c) /\ streak' \in 1..(MAX_LOGIN_ATTEMPTS - 1)) =>
               users'[uid].lockUntil = NULL]_vars

\* The stored lockUntil of the verified user that e-mail e names is
\* strictly in the future.
StoredLocked(e) ==
    /\ findByEmail(e) # 0
    /\ users[findByEmail(e)].isEmailVerified
    /\ users[findByEmail(e)].lockUntil # NULL
    /\ users[findByEmail(e)].lockUntil > now

\* The lock that the fifth failure is to store (C1): the last answered call
\* was the fifth wrong-password login in a row of the verified user that
\* e-mail e names.  That call counted its failure at T0 or later and was
\* answered at resp.at, so it locks the account until some time from
\* T0 + LOCK_TIME to resp.at + LOCK_TIME.
FifthFailureOf(e) ==
    /\ findByEmail(e) # 0
    /\ users[findByEmail(e)].isEmailVerified
    /\ LastLogin
    /\ resp.uid = findByEmail(e)
    /\ streak = MAX_LOGIN_ATTEMPTS

\* The lock of the user that e-mail e names is in force: the stored
\* lockUntil is strictly in the future, or the fifth failure was counted
\* less than LOCK_TIME ago, as every failure was while the clock has not
\* passed T0 + LOCK_TIME.
LockInForce(e) ==
    \/ StoredLocked(e)
    \/ FifthFailureOf(e) /\ T0 + LOCK_TIME > now

C3_FifthFailureSaysLocked ==
    (LastLogin /\ streak = MAX_LOGIN_ATTEMPTS) =>
        (resp.code = 401 /\ resp.msg = MsgLocked)

\* C3, amended: the fifth consecutive wrong-password login is rejected with
\* 401 and the generic 'Invalid email or password' message, the message of
\* the four rejections before it, not the 'account locked' message.
C3_FifthFailureSaysInvalid ==
    (LastLogin /\ streak \in 1..MAX_LOGIN_ATTEMPTS) =>
        (resp.code = 401 /\ resp.msg = MsgInvalid)

\* C3 witness: the fifth wrong-password login in a row has been answered.
C3_Witness ==
    /\ LastLogin
    /\ streak = MAX_LOGIN_ATTEMPTS
    /\ users[resp.uid].loginAttempts = MAX_LOGIN_ATTEMPTS
    /\ resp.code = 401

\* C4: under any interleaving of concurrent failed logins, no reachable
\* state has a stored loginAttempts at or past the threshold while lockUntil
\* is unset.
C4_ThresholdImpliesLock ==
    \A i \in 1..Len(users) :
        users[i].loginAttempts >= MAX_LOGIN_ATTEMPTS =>
            users[i].lockUntil # NULL

\* The verified user that e-mail e names has a stored lockUntil that is set
\* and not strictly in the future.
StoredStaleLock(e) ==
    /\ findByEmail(e) # 0
    /\ users[findByEmail(e)].isEmailVerified
    /\ users[findByEmail(e)].lockUntil # NULL
    /\ users[findByEmail(e)].lockUntil <= now

\* The lock of the user that e-mail e names has expired: the stored
\* lockUntil is set and not strictly in the future, or the fifth failure was
\* answered LOCK_TIME ago or more.
LockExpired(e) ==
    \/ StoredStaleLock(e)
    \/ FifthFailureOf(e) /\ resp.at + LOCK_TIME <= now

UnlockedAndRight(e, p) ==
    /\ findByEmail(e) # 0
    /\ users[findByEmail(e)].isEmailVerified
    /\ ~StoredLocked(e)
    /\ bcryptCompare(p, users[findByEmail(e)].password)

\* C12: a login with the correct password for a verified user who is not
\* locked succeeds: it sets loginAttempts to 0, removes lockUntil, sets
\* lastLoginAt to the current time and returns an access token and a refresh
\* token for that user.
C12_GoodLoginResets ==
    [][\A c \in Clients :
         /\ (/\ loginUpdate(c)
             /\ UnlockedAndRight(inflight[c].email, inflight[c].password)) =>
               LET uid == findByEmail(inflight[c].email) IN
               /\ inflight'[c].pc = "login:reset"
               /\ inflight'[c].uid = uid
               /\ users'[uid].loginAttempts = 0
               /\ users'[uid].lockUntil = NULL
               /\ users'[uid].lastLoginAt = now
         /\ (inflight[c].pc = "login:reset" /\ loginReply(c)) =>
               LET uid == inflight[c].uid IN
               /\ resp'.op = "login"
               /\ resp'.code = 200
               /\ resp'.uid = uid
               /\ resp'.access = generateAccessToken(uid, now)
               /\ resp'.refresh = generateRefreshToken(uid, now)
               /\ users'[uid].loginAttempts = 0
               /\ users'[uid].lockUntil = NULL
               /\ users'[uid].lastLoginAt = users[uid].lastLoginAt
               /\ users[uid].lastLoginAt <= now]_vars

\* A login has just succeeded, its answer signed a second or more after the
\* counter was reset: the counter is 0, no lock is stored and the stamp is
\* the time of the reset.
C12_Witness ==
    /\ resp.op = "login"
    /\ resp.code = 200
    /\ resp.access.type = "access"
    /\ resp.refresh.type = "refresh"
    /\ users[resp.uid].loginAttempts = 0
    /\ users[resp.uid].lockUntil = NULL
    /\ users[resp.uid].lastLoginAt > T0
    /\ users[resp.uid].lastLoginAt < resp.at
    /\ resp.access.iat = NowSec(resp.at)

\* The messages of the rejections login makes before it compares passwords,
\* for a user it has found.
EarlyRejections == {MsgUnverified, MsgLocked}

\* C30: login evaluates its checks in the order existence, e-mail verified,
\* lock, password: an unverified user is rejected as unverified whether or
\* not the account is locked or the password is right, and no rejection that
\* happens before the password check changes loginAttempts or lockUntil;
\* only a password mismatch increments the counter.
C30_LoginCheckOrder ==
    [][\A c \in Clients :
         /\ loginUpdate(c) =>
               LET uid == findByEmail(inflight[c].email)
                   p == inflight[c].password
               IN
               /\ uid = 0 =>
                     /\ resp' = Reply("login", 401, MsgInvalid, 0, NoJwt,
                                      NoJwt)
                     /\ UNCHANGED users
               /\ (uid # 0 /\ ~users[uid].isEmailVerified) =>
                     /\ resp' = Reply("login", 401, MsgUnverified, uid,
                                      NoJwt, NoJwt)
                     /\ UNCHANGED users
               /\ (/\ inflight'[c].pc = "idle"
                   /\ resp'.code = 401
                   /\ resp'.msg \in EarlyRejections) =>
                     UNCHANGED users
               /\ \A i \in 1..Len(users) :
                     /\ users'[i].loginAttempts > users[i].loginAttempts =>
                           /\ i = uid
                           /\ WrongPassword(uid, p)
                           /\ inflight'[c].pc = "login:counted"
                           /\ users'[i].loginAttempts
                                 = users[i].loginAttempts + 1
                     /\ users'[i].lockUntil # users[i].lockUntil =>
                           /\ i = uid
                           /\ users[uid].isEmailVerified
               /\ (WrongPassword(uid, p) /\ users[uid].lockUntil = NULL) =>
                     users'[uid].loginAttempts
                        = users[uid].loginAttempts + 1
         /\ loginReject(c) =>
               /\ resp'.code = 401
               /\ resp'.msg \notin EarlyRejections
               /\ UNCHANGED users
         /\ (loginFind(c, inflight'[c].email, inflight'[c].password)
                \/ loginReply(c)) =>
               UNCHANGED users]_vars

LoginRejected == resp.op = "login" /\ resp.code = 401

\* A login for the unverified account that is also locked has been rejected
\* as unverified; counter and lock are as they were stored.
C30_Witness ==
    /\ LoginRejected
    /\ resp.msg = MsgUnverified
    /\ resp.uid # 0
    /\ ~users[resp.uid].isEmailVerified
    /\ users[resp.uid].loginAttempts = MAX_LOGIN_ATTEMPTS
    /\ users[resp.uid].lockUntil = T0 + LOCK_TIME
    /\ users[resp.uid].lockUntil > now

\* C35: when login attempts for a user do not overlap, every reachable state
\* satisfies: loginAttempts <= 5, and loginAttempts >= 5 implies lockUntil is
\* set.
C35_CounterBoundedAndLocked ==
    \A i \in 1..Len(users) :
        /\ users[i].loginAttempts <= MAX_LOGIN_ATTEMPTS
        /\ users[i].loginAttempts >= MAX_LOGIN_ATTEMPTS =>
              Truthy(users[i].lockUntil)

\* SpecCompare: the guard's logins, some of which meet a failing
\* bcrypt.compare.
NextCompare ==
    \/ \E c \in Callers, e \in Emails, p \in Passwords : loginFind(c, e, p)
    \/ \E c \in Callers : loginUpdate(c)
    \/ \E c \in Callers : loginReject(c)
    \/ \E c \in Callers : loginReply(c)
    \/ \E c \in Callers, dev \in BOOLEAN : loginCompareRaises(c, dev)
    \/ Receive
    \/ \E d \in GuardSteps : Tick(d)

SpecCompare == InitGuard /\ [][NextCompare]_vars

\* C39: when the comparison itself fails (comparePassword raises because
\* bcrypt.compare throws), login fails with an internal error (500) whose
\* message is not "Invalid email or password", it returns no session, and
\* loginAttempts and lockUntil of every user stay as they were.
C39_CompareFailureIsInternal ==
    [][\A c \in Clients, dev \in BOOLEAN :
          (ReachesCompare(c) /\ loginCompareRaises(c, dev)) =>
             /\ resp'.op = "login"
             /\ resp'.code = 500
             /\ resp'.msg # MsgInvalid
             /\ resp'.access = NoJwt /\ resp'.refresh = NoJwt
             /\ inflight'[c].pc = "idle"
             /\ \A i \in DOMAIN users :
                   /\ users'[i].loginAttempts = users[i].loginAttempts
                   /\ users'[i].lockUntil = users[i].lockUntil]_vars

\* After two counted wrong passwords a login met a failing comparison: the
\* answer is the internal error and the counter still reads two.
C39_Witness ==
    /\ resp.op = "login"
    /\ resp.code = 500
    /\ resp.msg \in {MsgCompareFailed, MsgInternal}
    /\ users[resp.uid].loginAttempts = 2
    /\ users[resp.uid].lockUntil = NULL

(***************************************************************************)
(* The service from an empty store.  JWT_REFRESH_SECRET is either its own  *)
(* value or the same value as JWT_SECRET.                                  *)
(***************************************************************************)
RefreshSecrets == {JwtSecret, "jwt-refresh-secret"}

Init ==
    /\ InitBase
    /\ refreshSecret \in RefreshSecrets
    /\ users = <<>>

\* A second, and the lifetimes of a reset link and of a verification link.
TokenSteps == {MS_PER_SEC, RESET_TTL, VERIFY_TTL}

SessionSteps == {MS_PER_SEC}

\* What a request can carry as its bearer token.
Bearers == Presentable \cup {NoJwt}

\* The addresses requests name: one is typed with a capital.
SessionEmails == {"A@x.com", "b@x.com"}

\* GET /me, and PATCH /update-password with its two passwords.
GetMe == Body("authenticate", "", "", {})
UpdatePasswordBody(currentPassword, newPassword) ==
    Body("updatePassword", currentPassword, newPassword, {})
UpdateProfileBody(paths) == Body("updateProfile", "", "", paths)
DeleteAccountBody == Body("deleteAccount", "", "", {})
LogoutBody == Body("logout", "", "", {})

(***************************************************************************)
(* SpecSession: the sessions of one verified user, one request at a time.  *)
(***************************************************************************)
InitSession ==
    /\ InitBase
    /\ refreshSecret \in RefreshSecrets
    /\ users = <<SeedUser(TRUE, <<0, NULL>>)>>

\* The same with JWT_REFRESH_SECRET set to a value of its own.
InitStore ==
    /\ InitBase
    /\ refreshSecret = "jwt-refresh-secret"
    /\ users = <<SeedUser(TRUE, <<0, NULL>>)>>

(***************************************************************************)
(* SpecLockout: the login calls of SpecGuard on the account as signup and  *)
(* verifyEmail leave it: verified, loginAttempts 0, no lockUntil.  Every   *)
(* lock of these runs is one the calls themselves have brought about.      *)
(***************************************************************************)
SpecLockout == InitStore /\ [][NextGuard]_vars

NextSession ==
    \/ \E c \in Callers, p \in Passwords : loginFind(c, "a@x.com", p)
    \/ \E c \in Callers : loginUpdate(c)
    \/ \E c \in Callers : loginReject(c)
    \/ \E c \in Callers : loginReply(c)
    \/ \E c \in Callers, tok \in Presentable : refreshFind(c, tok)
    \/ \E c \in Callers : refreshReply(c)
    \/ \E c \in Callers, tok \in Bearers : authenticateFind(c, tok, GetMe)
    \/ \E c \in Callers, tok \in Bearers, cur \in Passwords,
          p \in Passwords :
          authenticateFind(c, tok, UpdatePasswordBody(cur, p))
    \/ \E c \in Callers : authenticateNext(c)
    \/ \E c \in Callers : getMeReply(c)
    \/ \E c \in Callers, dev \in BOOLEAN : updatePasswordSave(c, dev)
    \/ \E c \in Callers : updatePasswordReply(c)
    \/ Receive
    \/ \E d \in SessionSteps : Tick(d)

SpecSession == InitSession /\ [][NextSession]_vars

(***************************************************************************)
(* Sessions: claims C5, C8 and C13.                                        *)
(***************************************************************************)
\* Access token tok was issued, whatever the millisecond of its issuing
\* second, before the user's password was last replaced (the replacement
\* happened PWD_SKEW after the stored passwordChangedAt).
IssuedBeforeReplacement(tok) ==
    /\ tok.type = "access"
    /\ tok.key = JwtSecret
    /\ tok.id \in 1..Len(users)
    /\ users[tok.id].passwordChangedAt # NULL
    /\ tok.iat * MS_PER_SEC + (MS_PER_SEC - 1)
          < users[tok.id].passwordChangedAt + PWD_SKEW

\* C5: an access token issued strictly before the user's password was
\* replaced is rejected by authenticate with Unauthorized at every time after
\* the replacement, though its signature is valid and it has not expired.
C5_OldAccessTokenRejected ==
    [][\A c \in Clients :
         /\ \A tok \in Presentable, body \in {GetMe} :
               (authenticateFind(c, tok, body)
                   /\ IssuedBeforeReplacement(tok)) =>
                  \/ resp'.code = 401 /\ resp'.tok = tok
                  \/ inflight'[c].pc = "authenticate:found"
         /\ (authenticateNext(c)
                /\ IssuedBeforeReplacement(inflight[c].tok)) =>
               /\ resp'.code = 401
               /\ resp'.tok = inflight[c].tok]_vars

\* C8: a token minted by generateAccessToken is rejected by verifyRefreshToken
\* (so by refreshAccessToken) and a token minted by generateRefreshToken is
\* rejected by verifyAccessToken (so by authenticate and the routes behind
\* it), with Unauthorized, also when both secrets have the same value.
C8_TokenTypesNotInterchangeable ==
    /\ (resp.op = "refreshAccessToken" /\ resp.tok.type = "access") =>
          /\ resp.code = 401
          /\ resp.access = NoJwt
    /\ (resp.op \in {"authenticate", "updatePassword"}
           /\ resp.tok.type = "refresh") =>
          /\ resp.code = 401
          /\ resp.access = NoJwt
    /\ \A c \in Clients :
          /\ inflight[c].pc = "refresh:found" =>
                inflight[c].tok.type = "refresh"
          /\ inflight[c].pc \in {"authenticate:found", "authenticate",
                                 "updatePassword",
                                 "updatePassword:saved"} =>
                inflight[c].tok.type = "access"
    /\ \A tok \in Presentable :
          /\ tok.type = "access" => verifyRefreshToken(tok, now) # ""
          /\ tok.type = "refresh" => verifyAccessToken(tok, now) # ""

\* With both secrets equal, an access token has been presented as a refresh
\* token and was turned down for its type.
C8_Witness ==
    /\ refreshSecret = JwtSecret
    /\ resp.op = "refreshAccessToken"
    /\ resp.tok.type = "access"
    /\ resp.code = 401
    /\ resp.msg = MsgTokenType

\* Refresh token tok was issued, whatever the millisecond of its issuing
\* second, before its user's password was last replaced.
RefreshFromBeforeChange(tok) ==
    /\ tok.type = "refresh"
    /\ tok.key = refreshSecret
    /\ tok.id \in 1..Len(users)
    /\ users[tok.id].passwordChangedAt # NULL
    /\ tok.iat * MS_PER_SEC + (MS_PER_SEC - 1)
          < users[tok.id].passwordChangedAt + PWD_SKEW

\* C13: a refresh token issued before a password change still passes
\* refreshAccessToken after the change (the change is checked for access
\* tokens only), and authenticate then accepts the access token it yields.
C13_RefreshSurvivesPasswordChange ==
    /\ [][\A c \in Clients :
            /\ \A tok \in Presentable :
                  (/\ refreshFind(c, tok)
                   /\ RefreshFromBeforeChange(tok)
                   /\ findById(tok.id) # 0
                   /\ NowSec(now) < tok.exp) =>
                     /\ inflight'[c].pc = "refresh:found"
                     /\ inflight'[c].found
                     /\ UNCHANGED resp
            /\ (/\ refreshReply(c)
                /\ RefreshFromBeforeChange(inflight[c].tok)
                /\ inflight[c].found) =>
                  /\ resp'.code = 200
                  /\ resp'.tok = inflight[c].tok
                  /\ resp'.access
                        = generateAccessToken(inflight[c].tok.id, now)]_vars
    /\ []((/\ resp.op = "refreshAccessToken"
           /\ resp.code = 200
           /\ resp.at = now
           /\ RefreshFromBeforeChange(resp.tok)) =>
             authenticateError(resp.access, now) = "")

\* The refresh token of a login has been exchanged after the password was
\* changed.
C13_Witness ==
    /\ resp.op = "refreshAccessToken"
    /\ resp.code = 200
    /\ resp.at = now
    /\ NoCallInFlight
    /\ RefreshFromBeforeChange(resp.tok)
    /\ resp.access.type = "access"
    /\ resp.access.iat > resp.tok.iat

(***************************************************************************)
(* SpecTokens: one account and its e-mailed links, one request at a time.  *)
(* SpecResend: sign-up and the requests for another verification mail.     *)
(***************************************************************************)
InitTokens ==
    /\ InitBase
    /\ refreshSecret = "jwt-refresh-secret"
    /\ users = <<>>

NextTokens ==
    \/ \E c \in Callers : signupFind(c, "A@x.com", "pw-right-1")
    \/ \E c \in Callers : signupCreate(c)
    \/ \E c \in Callers : signupDeleteTokens(c)
    \/ \E c \in Callers : signupIssue(c)
    \/ \E c \in Callers : signupMail(c, TRUE)
    \/ \E c \in Callers : signupReply(c)
    \/ \E c \in Callers, pl \in Plains : verifyEmailFindToken(c, pl)
    \/ \E c \in Callers : verifyEmailDeleteToken(c)
    \/ \E c \in Callers : verifyEmailFindUser(c)
    \/ \E c \in Callers : verifyEmailSave(c)
    \/ \E c \in Callers : verifyEmailWelcome(c, TRUE)
    \/ \E c \in Callers : verifyEmailReply(c)
    \/ \E c \in Callers, e \in SessionEmails : forgotFind(c, e)
    \/ \E c \in Callers : forgotHasValidToken(c)
    \/ \E c \in Callers : forgotDeleteTokens(c)
    \/ \E c \in Callers : forgotIssue(c)
    \/ \E c \in Callers, ok \in BOOLEAN : forgotMail(c, ok)
    \/ \E c \in Callers : forgotReply(c)
    \/ \E c \in Callers, pl \in Plains, p \in Passwords :
          resetFindToken(c, pl, p)
    \/ \E c \in Callers : resetDeleteToken(c)
    \/ \E c \in Callers : resetFindUser(c)
    \/ \E c \in Callers : resetSave(c)
    \/ \E c \in Callers : resetDeleteUserTokens(c)
    \/ \E c \in Callers : resetReply(c)
    \/ Receive
    \/ \E d \in TokenSteps : Tick(d)

SpecTokens == InitTokens /\ [][NextTokens]_vars

NextResend ==
    \/ \E c \in Callers : signupFind(c, "A@x.com", "pw-right-1")
    \/ \E c \in Callers : signupCreate(c)
    \/ \E c \in Callers : signupDeleteTokens(c)
    \/ \E c \in Callers : signupIssue(c)
    \/ \E c \in Callers, ok \in BOOLEAN : signupMail(c, ok)
    \/ \E c \in Callers : signupReply(c)
    \/ \E c \in Callers, e \in SessionEmails : resendFind(c, e)
    \/ \E c \in Callers : resendHasValidToken(c)
    \/ \E c \in Callers : resendDeleteTokens(c)
    \/ \E c \in Callers : resendIssue(c)
    \/ \E c \in Callers, ok \in BOOLEAN : resendMail(c, ok)
    \/ \E c \in Callers, dev \in BOOLEAN : resendReply(c, dev)
    \/ Receive
    \/ \E d \in TokenSteps : Tick(d)

SpecResend == InitTokens /\ [][NextResend]_vars

(***************************************************************************)
(* Links and responses: claims C6, C9, C10, C14, C15, C22, C24, C36, C37.  *)
(***************************************************************************)
LinkOps == {"verifyEmail", "resetPassword"}

\* Request c is a verifyEmail or resetPassword whose Token.verifyToken has
\* done its findOne.
AtLink(c) == inflight[c].pc \in {"verifyEmail:token", "reset:token"}

\* Token.verifyToken goes on, for request c, from its findOne.
LinkStep(c) == verifyEmailDeleteToken(c) \/ resetDeleteToken(c)

\* Request c is a verifyEmail or resetPassword whose Token.verifyToken has
\* deleted the document it found and is about to return.
AtLinkResult(c) == inflight[c].pc \in {"verifyEmail:userId", "reset:userId"}

\* verifyEmail or resetPassword goes on, for request c, from the return of
\* Token.verifyToken.
LinkResultStep(c) == verifyEmailFindUser(c) \/ resetFindUser(c)

\* Request c is a verifyEmail in its Token.verifyToken.
InVerifyEmailLink(c) ==
    inflight[c].pc \in {"verifyEmail:token", "verifyEmail:userId"}

\* The kind of link request c consumes, and the other one.
LinkType(c) ==
    IF InVerifyEmailLink(c) THEN "email-verification" ELSE "password-reset"

OtherKind(c) ==
    IF InVerifyEmailLink(c) THEN "password-reset" ELSE "email-verification"

LinkOp(c) == IF InVerifyEmailLink(c) THEN "verifyEmail" ELSE "resetPassword"

BadLink(c) == IF InVerifyEmailLink(c) THEN MsgBadVerifyLink ELSE MsgBadResetLink

\* C6: verifyToken is single-use.  The first call with the plaintext and kind
\* of a generated, unexpired token returns the owning userId and deletes the
\* record; every later call with that plaintext returns null, so a second
\* verifyEmail or resetPassword with the same link fails with BadRequest.
C6_SingleUse ==
    /\ [](\A p \in Plains :
            /\ uses[p] <= 1
            /\ (uses[p] = 1 /\ NoCallInFlight) =>
                  \A t \in tokens : t.token # sha256(p))
    /\ [][\A c \in Clients :
            (AtLink(c) /\ LinkStep(c)) =>
               LET plain == inflight[c].plain IN
               /\ (\E t \in tokenDocs(plain, LinkType(c)) :
                      t.expiresAt >= now)
                     => /\ uses[plain] = 0
                        /\ uses'[plain] = 1
                        /\ inflight'[c].uid = verifyToken(plain, LinkType(c))
                        /\ inflight'[c].uid # 0
                        /\ inflight'[c].pc \in {"verifyEmail:userId",
                                                "reset:userId"}
                        /\ \A t \in tokens' : t.token # sha256(plain)
               /\ uses[plain] >= 1
                     => /\ resp'.op = LinkOp(c)
                        /\ resp'.plain = plain
                        /\ resp'.code = 400
                        /\ resp'.msg = BadLink(c)
                        /\ inflight'[c].pc = "idle"
                        /\ UNCHANGED <<users, tokens, uses>>]_vars

\* A link that has been used once has been presented again.
C6_Witness ==
    /\ resp.op \in LinkOps
    /\ resp.plain \in Plains
    /\ uses[resp.plain] = 1
    /\ resp.code = 400
    /\ resp.msg \in {MsgBadVerifyLink, MsgBadResetLink}

ReturnsToken == resp.access # NoJwt \/ resp.refresh # NoJwt

\* C9: resendVerificationEmail returns the same success response for an
\* unregistered e-mail and for a registered, unverified e-mail that has no
\* outstanding token.
C9_ResendResponseUniform ==
    (resp.op = "resendVerificationEmail" /\ resp.code = 200) =>
        resp.msg = resendNotFoundMessage

\* C10: whenever forgotPassword returns successfully, what it returns does
\* not depend on whether the e-mail belongs to a user.
C10_ForgotResponseUniform ==
    (resp.op = "forgotPassword" /\ resp.code = 200) =>
        /\ resp.msg = forgotNotFoundMessage
        /\ ~ReturnsToken

\* forgotPassword has succeeded for a registered e-mail and its link is out.
C10_Witness ==
    /\ resp.op = "forgotPassword"
    /\ resp.code = 200
    /\ resp.uid # 0
    /\ \E m \in outbox : m.kind = "password-reset"

\* C14: when the mailer fails while resendVerificationEmail is sending the
\* new link, the failure is swallowed: the call does not raise and returns
\* its success result.
C14_ResendSwallowsMailFailure ==
    [][\A c \in Clients, dev \in BOOLEAN :
         /\ resendMail(c, FALSE) => inflight'[c].pc = "resend:mailed"
         /\ (resendReply(c, dev) /\ ~inflight[c].found) =>
               /\ resp'.code = 200
               /\ resp'.msg = resendSentMessage]_vars

\* The last call answered was a successful signup for e-mail e whose
\* verification mail was not delivered, and the account is still unverified.
SignupMailFailed(e) ==
    /\ resp.op = "signup"
    /\ resp.code = 201
    /\ resp.uid = findByEmail(e)
    /\ resp.uid # 0
    /\ ~users[resp.uid].isEmailVerified
    /\ \A m \in outbox : m.to # users[resp.uid].email

\* C15: if the verification mail fails during signup, signup still succeeds
\* and a subsequent resendVerificationEmail for the still unverified e-mail
\* issues a new verification token and sends it instead of being rejected.
C15_ResendAfterFailedSignupMail ==
    [][\A c \in Clients :
         /\ (resendHasValidToken(c) /\ SignupMailFailed(inflight[c].email))
               => inflight'[c].pc = "resend:checked"
         /\ (resendDeleteTokens(c) /\ SignupMailFailed(inflight[c].email))
               => inflight'[c].pc = "resend:deleted"
         /\ (resendIssue(c) /\ SignupMailFailed(inflight[c].email)) =>
               /\ nextSecret' = nextSecret + 1
               /\ inflight'[c].plain = nextSecret
               /\ verifyToken(nextSecret, "email-verification")'
                     = inflight[c].uid
         /\ (resendMail(c, TRUE) /\ SignupMailFailed(inflight[c].email)) =>
               Mail(users[inflight[c].uid].email, "email-verification",
                    inflight[c].plain) \in outbox'
         /\ \A dev \in BOOLEAN :
               (resendReply(c, dev) /\ inflight[c].found
                   /\ resp.op = "signup") =>
                  resp'.code = 200]_vars

\* The store holds a record for plaintext p and kind type whose expiresAt
\* has passed.
Expired(p, type) == \E t \in tokenDocs(p, type) : t.expiresAt < now

\* No record was ever made for plaintext p.
NeverIssued(p) == p >= nextSecret

\* What the caller is told, whichever plaintext was presented.
Told(r) == [r EXCEPT !.plain = 0]

\* C22: verifyToken on a token whose expiresAt has passed returns null,
\* exactly the result for a plaintext that was never issued, and deletes the
\* expired record; verifyEmail and resetPassword then fail with BadRequest
\* and change no user state.
C22_ExpiredLinkIsNotFound ==
    [][\A c \in Clients :
         /\ (/\ AtLink(c)
             /\ \/ Expired(inflight[c].plain, LinkType(c))
                \/ NeverIssued(inflight[c].plain)
             /\ LinkStep(c)) =>
            /\ verifyToken(inflight[c].plain, LinkType(c)) = 0
            /\ verifyTokenReturns(c) = 0
            /\ tokens' = tokens \ tokenDocs(inflight[c].plain, LinkType(c))
            /\ UNCHANGED <<users, held, outbox, uses>>
            /\ \/ /\ NeverIssued(inflight[c].plain)
                  /\ Told(resp') = Reply(LinkOp(c), 400, BadLink(c), 0,
                                         NoJwt, NoJwt)
                  /\ inflight'[c].pc = "idle"
               \/ /\ Expired(inflight[c].plain, LinkType(c))
                  /\ inflight'[c].pc \in {"verifyEmail:userId",
                                          "reset:userId"}
                  /\ inflight'[c].uid = 0
                  /\ UNCHANGED resp
         /\ (AtLinkResult(c) /\ inflight[c].uid = 0
                /\ LinkResultStep(c)) =>
               /\ Told(resp') = Reply(LinkOp(c), 400, BadLink(c), 0, NoJwt,
                                      NoJwt)
               /\ inflight'[c].pc = "idle"
               /\ UNCHANGED <<users, tokens, held, outbox, uses>>]_vars

\* The link of the only signup was presented for the first time more than a
\* day later: it was turned down, its record is gone and the user is still
\* unverified.
C22_Witness ==
    /\ resp.op = "verifyEmail"
    /\ resp.plain = 1
    /\ resp.code = 400
    /\ resp.at > T0 + VERIFY_TTL
    /\ nextSecret = 2
    /\ uses[1] = 0
    /\ tokens = {}
    /\ Len(users) = 1
    /\ ~users[1].isEmailVerified

\* The plaintext signup mails: the first one generated.
SignupPlain == 1

\* C24: after a successful resetPassword(token, newPassword) the user's
\* stored password verifies newPassword and no longer the old one (no other
\* password verifies), passwordChangedAt is stamped, no ephemeral token of
\* any kind remains stored for that user (so any other outstanding link
\* fails), and the result carries no access or refresh token.
C24_ResetReplacesAndRevokes ==
    [][\A c \in Clients :
         /\ (resetSave(c) /\ inflight'[c].pc = "reset:saved") =>
               LET u == inflight[c].uid IN
               /\ u = inflight[c].tokenDoc.userId
               /\ uses[inflight[c].plain] = 1
               /\ users'[u].passwordChangedAt = now - PWD_SKEW
         /\ resetDeleteUserTokens(c) =>
               LET u == inflight[c].uid IN
               /\ inflight'[c].pc = "reset:cleared"
               /\ {t \in tokens' : t.userId = u} = {}
               /\ \A p \in Plains, ty \in TokenTypes :
                     verifyToken(p, ty)' # u
         /\ resetReply(c) =>
               LET u == inflight[c].uid
                   pw == inflight[c].newPassword
               IN
               /\ resp'.op = "resetPassword"
               /\ resp'.code = 200
               /\ resp'.uid = u
               /\ comparePassword(Select(users'[u], {"password"}), pw)
               /\ \A q \in Passwords \ {pw} :
                     ~comparePassword(Select(users'[u], {"password"}), q)
               /\ users'[u].passwordChangedAt # NULL
               /\ users'[u].passwordChangedAt <= now - PWD_SKEW
               /\ {t \in tokens' : t.userId = u} = {}
               /\ \A p \in Plains, ty \in TokenTypes :
                     verifyToken(p, ty)' # u
               /\ resp'.access = NoJwt
               /\ resp'.refresh = NoJwt
               /\ held' = held]_vars

\* The reset link has been used while the signup link of the same, still
\* unverified user was outstanding and unexpired: both records are gone and
\* passwordChangedAt carries the stamp of the call.
C24_Witness ==
    /\ resp.op = "resetPassword"
    /\ resp.code = 200
    /\ resp.plain = 2
    /\ nextSecret = 3
    /\ uses[SignupPlain] = 0
    /\ now <= T0 + RESET_TTL
    /\ tokens = {}
    /\ ~users[resp.uid].isEmailVerified
    /\ users[resp.uid].passwordChangedAt = resp.at - PWD_SKEW
    /\ \E m \in outbox : m.kind = "password-reset" /\ m.token = 2

\* C36: ephemeral tokens are bound to their kind: presenting the plaintext of
\* an e-mail verification token to resetPassword (or of a password-reset
\* token to verifyEmail) fails with BadRequest, changes no user state, and
\* leaves that token stored and still usable for its own kind.
C36_LinksBoundToKind ==
    [][\A c \in Clients :
         /\ \A pl \in Plains, pw \in Passwords :
               (/\ \/ /\ verifyEmailFindToken(c, pl)
                      /\ tokenDocs(pl, "password-reset") # {}
                   \/ /\ resetFindToken(c, pl, pw)
                      /\ tokenDocs(pl, "email-verification") # {})
                  => inflight'[c].tokenDoc = NoTokenDoc
         /\ (/\ AtLink(c)
             /\ tokenDocs(inflight[c].plain, OtherKind(c)) # {}
             /\ LinkStep(c)) =>
               /\ resp'.op = LinkOp(c)
               /\ resp'.plain = inflight[c].plain
               /\ resp'.code = 400
               /\ resp'.msg = BadLink(c)
               /\ resp'.access = NoJwt
               /\ inflight'[c].pc = "idle"
               /\ UNCHANGED <<users, tokens, uses, held, outbox>>
               /\ \A p \in Plains, k \in TokenTypes :
                     (p = inflight[c].plain /\ k = OtherKind(c)) =>
                        verifyToken(p, k)' = verifyToken(p, k)]_vars

\* The signup link has been handed to resetPassword and turned down; it is
\* still stored, unused, and verifyToken would accept it for its own kind.
C36_Witness ==
    /\ resp.op = "resetPassword"
    /\ resp.code = 400
    /\ resp.plain = SignupPlain
    /\ uses[SignupPlain] = 0
    /\ verifyToken(SignupPlain, "email-verification") # 0
    /\ ~users[verifyToken(SignupPlain, "email-verification")].isEmailVerified

\* C37: hasValidToken(userId, kind) changes no stored state, and at every
\* instant it returns true exactly when a stored token of that user and kind
\* exists that verifyToken would accept at that same instant; the two agree
\* on when a token counts as expired, also at the instant equal to
\* expiresAt.
C37_HasValidTokenAgreesWithVerify ==
    \A userId \in DOMAIN users, type \in TokenTypes :
       hasValidToken(userId, type)
          <=> \E p \in Plains : verifyToken(p, type) = userId

(***************************************************************************)
(* SpecIssue: every operation that hands out session tokens, and the soft  *)
(* delete, one request at a time.  None of them reads the clock to decide  *)
(* whom to serve, so the clock stands still here.                          *)
(***************************************************************************)
NextIssue ==
    \/ \E c \in Callers : signupFind(c, "A@x.com", "pw-right-1")
    \/ \E c \in Callers : signupCreate(c)
    \/ \E c \in Callers : signupDeleteTokens(c)
    \/ \E c \in Callers : signupIssue(c)
    \/ \E c \in Callers : signupMail(c, TRUE)
    \/ \E c \in Callers : signupReply(c)
    \/ \E c \in Callers, pl \in Plains : verifyEmailFindToken(c, pl)
    \/ \E c \in Callers : verifyEmailDeleteToken(c)
    \/ \E c \in Callers : verifyEmailFindUser(c)
    \/ \E c \in Callers : verifyEmailSave(c)
    \/ \E c \in Callers : verifyEmailWelcome(c, TRUE)
    \/ \E c \in Callers : verifyEmailReply(c)
    \/ \E c \in Callers, e \in SessionEmails, p \in Passwords :
          loginFind(c, e, p)
    \/ \E c \in Callers : loginUpdate(c)
    \/ \E c \in Callers : loginReject(c)
    \/ \E c \in Callers : loginReply(c)
    \/ \E c \in Callers, v \in BOOLEAN, e \in SessionEmails,
          ev \in BOOLEAN : googleAuthFind(c, v, e, ev)
    \/ \E c \in Callers : googleAuthLookup(c)
    \/ \E c \in Callers, le \in BOOLEAN : googleAuthUpdate(c, le)
    \/ \E c \in Callers : googleAuthReset(c)
    \/ \E c \in Callers : googleAuthReply(c)
    \/ \E c \in Callers, tok \in Bearers, id \in BOOLEAN, v \in BOOLEAN,
          e \in SessionEmails, ev \in BOOLEAN :
          googleLogin(c, tok, GoogleBody(id, v, e, ev))
    \/ \E c \in Callers : googleLoginNext(c)
    \/ \E c \in Callers, tok \in Presentable : refreshFind(c, tok)
    \/ \E c \in Callers : refreshReply(c)
    \/ \E c \in Callers, tok \in Bearers, cur \in Passwords,
          p \in Passwords :
          authenticateFind(c, tok, UpdatePasswordBody(cur, p))
    \/ \E c \in Callers, tok \in Bearers :
          authenticateFind(c, tok, DeleteAccountBody)
    \/ \E c \in Callers : authenticateNext(c)
    \/ \E c \in Callers : deleteAccountReply(c)
    \/ \E c \in Callers, dev \in BOOLEAN : updatePasswordSave(c, dev)
    \/ \E c \in Callers : updatePasswordReply(c)
    \/ Receive

SpecIssue == InitTokens /\ [][NextIssue]_vars

(***************************************************************************)
(* SpecIssueConc: the same operations while a second request is being      *)
(* handled.  Requests are handled independently of one another; the second *)
(* request here is a DELETE /account, and its steps fall between the steps *)
(* of the operation the first request is in: between that operation's      *)
(* lookup of the user and its reply.                                       *)
(***************************************************************************)
NextIssueConc ==
    \/ \E c \in Callers : signupFind(c, "A@x.com", "pw-right-1")
    \/ \E c \in Callers : signupCreate(c)
    \/ \E c \in Callers : signupDeleteTokens(c)
    \/ \E c \in Callers : signupIssue(c)
    \/ \E c \in Callers : signupMail(c, TRUE)
    \/ \E c \in Callers : signupReply(c)
    \/ \E c \in Callers, pl \in Plains : verifyEmailFindToken(c, pl)
    \/ \E c \in Callers : verifyEmailDeleteToken(c)
    \/ \E c \in Callers : verifyEmailFindUser(c)
    \/ \E c \in Callers : verifyEmailSave(c)
    \/ \E c \in Callers : verifyEmailWelcome(c, TRUE)
    \/ \E c \in Callers : verifyEmailReply(c)
    \/ \E c \in Callers : loginFind(c, "a@x.com", "pw-right-1")
    \/ \E c \in Callers : loginUpdate(c)
    \/ \E c \in Callers : loginReject(c)
    \/ \E c \in Callers : loginReply(c)
    \/ \E c \in Callers : googleAuthFind(c, TRUE, "A@x.com", TRUE)
    \/ \E c \in Callers : googleAuthLookup(c)
    \/ \E c \in Callers : googleAuthUpdate(c, TRUE)
    \/ \E c \in Callers : googleAuthReset(c)
    \/ \E c \in Callers : googleAuthReply(c)
    \/ \E c \in Callers, tok \in Presentable : refreshFind(c, tok)
    \/ \E c \in Callers : refreshReply(c)
    \/ \E c \in Callers, tok \in Presentable :
          authenticateFind(c, tok,
                           UpdatePasswordBody("pw-right-1", "pw-other-2"))
    \/ \E c \in Clients, tok \in Presentable :
          authenticateFind(c, tok, DeleteAccountBody)
    \/ \E c \in Clients : authenticateNext(c)
    \/ \E c \in Clients : deleteAccountReply(c)
    \/ \E c \in Callers, dev \in BOOLEAN : updatePasswordSave(c, dev)
    \/ \E c \in Callers : updatePasswordReply(c)
    \/ Receive

SpecIssueConc == InitTokens /\ [][NextIssueConc]_vars

(***************************************************************************)
(* Who gets a session: claims C7, C16, C17 and C27.                        *)
(***************************************************************************)
\* Request c is answered by one of the operations that sign session tokens.
IssuerReplies(c) ==
    \/ loginReply(c)
    \/ verifyEmailReply(c)
    \/ refreshReply(c)
    \/ googleAuthReply(c)
    \/ updatePasswordReply(c)

\* C7: whenever login, verifyEmail, refreshAccessToken, googleAuth or
\* updatePassword returns a session token for a user, that user exists, is
\* active and has isEmailVerified = true at that moment; signup never returns
\* a session token.
C7_TokensOnlyForVerified ==
    [][\A c \in Clients :
         /\ (IssuerReplies(c)
                /\ (resp'.access # NoJwt \/ resp'.refresh # NoJwt)) =>
               /\ resp'.uid \in 1..Len(users')
               /\ users'[resp'.uid].isActive
               /\ users'[resp'.uid].isEmailVerified
               /\ resp'.access.id = resp'.uid
               /\ resp'.refresh # NoJwt => resp'.refresh.id = resp'.uid
         /\ ((signupCreate(c) \/ signupReply(c))
                /\ inflight'[c].pc = "idle") =>
               /\ resp'.op = "signup"
               /\ resp'.access = NoJwt
               /\ resp'.refresh = NoJwt]_vars

\* C16: googleAuth grants a session for, or creates, the account of the
\* e-mail the provider returns only when the provider asserts that e-mail as
\* verified: an identity whose e-mail is reported unverified obtains no
\* session and changes no account.
C16_GoogleNeedsVerifiedEmail ==
    [][\A c \in Clients :
         /\ ((\E le \in BOOLEAN : googleAuthUpdate(c, le))
                /\ ~inflight[c].doc.emailVerified) =>
               UNCHANGED users
         /\ (googleAuthReply(c) /\ ~inflight[c].doc.emailVerified) =>
               /\ resp'.access = NoJwt
               /\ resp'.refresh = NoJwt]_vars

\* C17: POST /api/auth/google is a public route: a request without an
\* Authorization header reaches the googleLogin controller, which hands its
\* idToken to googleAuth, and is not turned down by authenticate.
C17_GoogleRouteIsPublic ==
    [][\A c \in Clients, v \in BOOLEAN, e \in SessionEmails,
          ev \in BOOLEAN :
         googleLogin(c, NoJwt, GoogleBody(TRUE, v, e, ev)) =>
            /\ googleLoginController(c, NoJwt, GoogleBody(TRUE, v, e, ev))
            /\ resp'.msg # MsgNotLoggedIn]_vars

\* Request c, a verifyEmail, presented a link that Token.verifyToken
\* accepted, and the user it loaded is verified.
ValidLinkOfVerified(c) ==
    /\ inflight[c].pc = "verifyEmail:user"
    /\ inflight[c].found
    /\ inflight[c].user.isEmailVerified
    /\ users[inflight[c].uid].isEmailVerified
    /\ uses[inflight[c].plain] = 1

\* C27: verifyEmail with a valid e-mail verification token for a user who is
\* already verified fails with BadRequest instead of silently succeeding: it
\* issues no session tokens and leaves isEmailVerified and emailVerifiedAt
\* unchanged.
C27_VerifiedUserCannotVerifyAgain ==
    [][\A c \in Clients :
         /\ (verifyEmailDeleteToken(c) \/ verifyEmailFindUser(c)) =>
               /\ UNCHANGED <<users, held, outbox>>
               /\ UNCHANGED resp \/ resp'.code = 400
         /\ (ValidLinkOfVerified(c) /\ verifyEmailSave(c)) =>
               /\ resp'.op = "verifyEmail"
               /\ resp'.plain = inflight[c].plain
               /\ resp'.code = 400
               /\ resp'.msg = MsgAlreadyVerified
               /\ resp'.access = NoJwt
               /\ resp'.refresh = NoJwt
               /\ inflight'[c].pc = "idle"
               /\ held' = held
               /\ \A i \in 1..Len(users) :
                     /\ users'[i].isEmailVerified = users[i].isEmailVerified
                     /\ users'[i].emailVerifiedAt = users[i].emailVerifiedAt
               /\ UNCHANGED <<users, outbox>>]_vars

\* The signup link has been followed after Google sign-in had verified the
\* account: the link was valid, and the call was turned down.
C27_Witness ==
    /\ resp.op = "verifyEmail"
    /\ resp.code = 400
    /\ resp.msg = MsgAlreadyVerified
    /\ resp.plain = SignupPlain
    /\ uses[SignupPlain] = 1
    /\ users[resp.uid].isEmailVerified
    /\ users[resp.uid].lastLoginAt # NULL

(***************************************************************************)
(* SpecAccount: one verified user who may delete the account, and every    *)
(* lookup authentication makes afterwards, one request at a time.          *)
(***************************************************************************)
NextAccount ==
    \/ \E c \in Callers, e \in SessionEmails :
          loginFind(c, e, "pw-right-1")
    \/ \E c \in Callers : loginUpdate(c)
    \/ \E c \in Callers : loginReply(c)
    \/ \E c \in Callers, tok \in Presentable : refreshFind(c, tok)
    \/ \E c \in Callers : refreshReply(c)
    \/ \E c \in Callers, tok \in Bearers : authenticateFind(c, tok, GetMe)
    \/ \E c \in Callers, tok \in Bearers :
          authenticateFind(c, tok, DeleteAccountBody)
    \/ \E c \in Callers, tok \in Bearers :
          authenticateFind(c, tok, LogoutBody)
    \/ \E c \in Callers : authenticateNext(c)
    \/ \E c \in Callers : getMeReply(c)
    \/ \E c \in Callers : deleteAccountReply(c)
    \/ \E c \in Callers, e \in SessionEmails : forgotFind(c, e)
    \/ \E c \in Callers : forgotHasValidToken(c)
    \/ \E c \in Callers : forgotDeleteTokens(c)
    \/ \E c \in Callers : forgotIssue(c)
    \/ \E c \in Callers, ok \in BOOLEAN : forgotMail(c, ok)
    \/ \E c \in Callers : forgotReply(c)
    \/ \E c \in Callers, e \in SessionEmails : resendFind(c, e)
    \/ \E c \in Callers : resendHasValidToken(c)
    \/ Receive
    \/ \E d \in SessionSteps : Tick(d)

SpecAccount == InitStore /\ [][NextAccount]_vars

(***************************************************************************)
(* Soft delete and refresh: claims C18 and C25.                            *)
(***************************************************************************)
\* The account of user i has been soft-deleted.
Deleted(i) == i \in 1..Len(users) /\ users[i].isActive = FALSE

\* E-mail e is the address of a soft-deleted account and of no other.
DeletedEmail(e) ==
    /\ \E i \in 1..Len(users) : Deleted(i) /\ users[i].email = Lower(e)
    /\ \A i \in 1..Len(users) : users[i].email = Lower(e) => Deleted(i)

\* C18: once deleteAccount has set isActive = false, every authentication
\* lookup misses the account: login with its credentials fails with 401,
\* authenticate rejects the access tokens issued for it, refreshAccessToken
\* rejects its refresh tokens, and forgotPassword and
\* resendVerificationEmail answer as for an unregistered e-mail.
C18_DeletedAccountInvisible ==
    [][\A c \in Clients :
       /\ \A e \in SessionEmails, p \in Passwords :
            (loginFind(c, e, p) /\ DeletedEmail(e)) => inflight'[c].uid = 0
       /\ (loginUpdate(c) /\ DeletedEmail(inflight[c].email)) =>
               /\ resp'.op = "login"
               /\ resp'.code = 401
               /\ resp'.msg = MsgInvalid
               /\ resp'.access = NoJwt
               /\ resp'.refresh = NoJwt
               /\ inflight'[c].pc = "idle"
               /\ UNCHANGED users
       /\ \A tok \in Presentable,
             body \in {GetMe, DeleteAccountBody, LogoutBody} :
            (authenticateFind(c, tok, body) /\ Deleted(tok.id)) =>
               \/ resp'.tok = tok /\ resp'.code = 401
               \/ inflight'[c].pc = "authenticate:found"
                     /\ ~inflight'[c].found
       /\ (authenticateNext(c) /\ Deleted(inflight[c].tok.id)) =>
               /\ resp'.tok = inflight[c].tok
               /\ resp'.code = 401
               /\ inflight'[c].pc = "idle"
               /\ UNCHANGED users
       /\ \A tok \in Presentable :
            (refreshFind(c, tok) /\ Deleted(tok.id)) =>
               \/ resp'.tok = tok /\ resp'.code = 401
               \/ inflight'[c].pc = "refresh:found" /\ ~inflight'[c].found
       /\ (refreshReply(c) /\ Deleted(inflight[c].tok.id)) =>
               /\ resp'.tok = inflight[c].tok
               /\ resp'.code = 401
               /\ resp'.access = NoJwt
               /\ UNCHANGED held
       /\ \A e \in SessionEmails :
            ((forgotFind(c, e) \/ resendFind(c, e)) /\ DeletedEmail(e)) =>
               inflight'[c].uid = 0
       /\ (forgotHasValidToken(c) /\ DeletedEmail(inflight[c].email)) =>
               /\ resp' = Reply("forgotPassword", 200, forgotNotFoundMessage,
                                0, NoJwt, NoJwt)
               /\ inflight'[c].pc = "idle"
               /\ UNCHANGED <<tokens, outbox>>
       /\ (resendHasValidToken(c) /\ DeletedEmail(inflight[c].email)) =>
               /\ resp' = Reply("resendVerificationEmail", 200,
                                resendNotFoundMessage, 0, NoJwt, NoJwt)
               /\ inflight'[c].pc = "idle"
               /\ UNCHANGED <<tokens, outbox>>]_vars

\* An access token of the deleted account has been presented and turned
\* down because its user is no longer found.
C18_Witness ==
    /\ resp.op = "authenticate"
    /\ resp.tok.type = "access"
    /\ Deleted(resp.tok.id)
    /\ resp.code = 401
    /\ resp.msg = MsgTokenUserGone

\* The user that token tok names is stored, active and verified.
LiveUser(tok) ==
    /\ tok.id \in 1..Len(users)
    /\ users[tok.id].isActive
    /\ users[tok.id].isEmailVerified

\* Token tok passes verifyRefreshToken and names such a user.
RefreshOk(tok) == verifyRefreshToken(tok, now) = "" /\ LiveUser(tok)

\* C25: refreshAccessToken succeeds exactly when the presented token passes
\* verifyRefreshToken and the user it names still exists, is active and has
\* isEmailVerified = true; on success it returns one new access token and no
\* new refresh token, changes no stored state, and the same refresh token
\* can be presented again with the same outcome.
C25_RefreshExactlyForLiveUsers ==
    [][\A c \in Clients :
         /\ \A tok \in Presentable :
               refreshFind(c, tok) =>
                  /\ UNCHANGED <<users, tokens, outbox, nextSecret,
                                 refreshSecret>>
                  /\ verifyRefreshToken(tok, now) # "" =>
                        /\ resp'.op = "refreshAccessToken"
                        /\ resp'.tok = tok
                        /\ resp'.code = 401
                        /\ resp'.access = NoJwt
                        /\ resp'.refresh = NoJwt
                        /\ inflight'[c].pc = "idle"
                  /\ verifyRefreshToken(tok, now) = "" =>
                        /\ inflight'[c].pc = "refresh:found"
                        /\ inflight'[c].tok = tok
                        /\ UNCHANGED resp
         /\ refreshReply(c) =>
               \A tok \in Presentable :
                  tok = inflight[c].tok =>
                     /\ resp'.op = "refreshAccessToken"
                     /\ resp'.tok = tok
                     /\ resp'.code = 200 <=> LiveUser(tok)
                     /\ resp'.code \in {200, 401}
                     /\ UNCHANGED <<users, tokens, outbox, nextSecret,
                                    refreshSecret>>
                     /\ resp'.refresh = NoJwt
                     /\ resp'.code = 401 => resp'.access = NoJwt
                     /\ resp'.code = 200 =>
                           /\ resp'.access = generateAccessToken(tok.id, now)
                           /\ verifyAccessToken(resp'.access, now) = ""
                           /\ RefreshOk(tok)']_vars

\* A refresh token that a client holds has been exchanged a second or more
\* after it was issued; the user's record is as the login left it.
C25_Witness ==
    /\ resp.op = "refreshAccessToken"
    /\ resp.code = 200
    /\ resp.tok \in held
    /\ resp.tok.type = "refresh"
    /\ resp.access.type = "access"
    /\ resp.access.iat > resp.tok.iat
    /\ resp.refresh = NoJwt
    /\ RefreshOk(resp.tok)
    /\ users[resp.uid].lastLoginAt = resp.tok.iat * MS_PER_SEC

(***************************************************************************)
(* SpecStore: the Token statics called one after the other.                *)
(* SpecStoreConc: generateToken calls that may overlap.                    *)
(* SpecOwners: the statics called one after the other for two owners.      *)
(* SpecVerifyTokenConc: verifyToken calls that may overlap.                *)
(***************************************************************************)
StoreUsers == 1..MaxUsers

\* The userIds token records are kept for: the stored user and one more.
Owners == 1..(MaxUsers + 1)

NextStore ==
    \/ \E c \in Callers, u \in StoreUsers, ty \in TokenTypes,
          ttl \in TokenTtls : generateDelete(c, u, ty, ttl)
    \/ \E c \in Callers : generateCreate(c)
    \/ \E c \in Callers : generateReturn(c)
    \/ \E c \in Callers, pl \in Plains, ty \in TokenTypes :
          verifyTokenFind(c, pl, ty)
    \/ \E c \in Callers : verifyTokenDelete(c)
    \/ \E c \in Callers : verifyTokenReturn(c)
    \/ \E c \in Callers, u \in StoreUsers, typed \in BOOLEAN,
          ty \in TokenTypes : storeDeleteUserTokens(c, u, typed, ty)
    \/ \E c \in Callers : storeDeleteUserTokensReturn(c)
    \/ cleanupExpired
    \/ ttlExpire
    \/ \E d \in TokenSteps : Tick(d)

SpecStore == InitStore /\ [][NextStore]_vars

NextStoreConc ==
    \/ \E c \in Clients, u \in StoreUsers, ty \in TokenTypes,
          ttl \in TokenTtls : generateDelete(c, u, ty, ttl)
    \/ \E c \in Clients : generateCreate(c)
    \/ \E c \in Clients : generateReturn(c)
    \/ ttlExpire
    \/ \E d \in TokenSteps : Tick(d)

SpecStoreConc == InitStore /\ [][NextStoreConc]_vars

NextOwners ==
    \/ \E c \in Callers, u \in Owners, ty \in TokenTypes,
          ttl \in TokenTtls : generateDelete(c, u, ty, ttl)
    \/ \E c \in Callers : generateCreate(c)
    \/ \E c \in Callers : generateReturn(c)
    \/ \E c \in Callers, pl \in Plains, ty \in TokenTypes :
          verifyTokenFind(c, pl, ty)
    \/ \E c \in Callers : verifyTokenDelete(c)
    \/ \E c \in Callers : verifyTokenReturn(c)
    \/ \E d \in SessionSteps : Tick(d)

SpecOwners == InitStore /\ [][NextOwners]_vars

NextVerifyTokenConc ==
    \/ \E c \in Callers, u \in StoreUsers, ttl \in TokenTtls :
          generateDelete(c, u, "password-reset", ttl)
    \/ \E c \in Callers : generateCreate(c)
    \/ \E c \in Callers : generateReturn(c)
    \/ \E c \in Clients, pl \in Plains :
          verifyTokenFind(c, pl, "password-reset")
    \/ \E c \in Clients : verifyTokenDelete(c)
    \/ \E c \in Clients : verifyTokenReturn(c)
    \/ \E d \in SessionSteps : Tick(d)

SpecVerifyTokenConc == InitStore /\ [][NextVerifyTokenConc]_vars

(***************************************************************************)
(* The token store: claims C19, C20, C21 and C31.                          *)
(***************************************************************************)
\* The records of one user and kind that verifyToken would still accept.
Unexpired(userId, type) ==
    {t \in Matching(userId, type) : ~(t.expiresAt < now)}

\* C19: when token operations do not overlap, every reachable state holds
\* at most one unexpired token record per user and kind.
C19_OneValidTokenPerKind ==
    \A i \in StoreUsers, type \in TokenTypes :
        Cardinality(Unexpired(i, type)) <= 1

\* generateToken has just issued the second plaintext within an hour of the
\* start; it is the only unexpired record of its user and kind, and the
\* first record is gone without having been used.
C19_Witness ==
    \E t \in tokens :
        /\ resp.op = "generateToken"
        /\ resp.msg = t.type
        /\ resp.uid = t.userId
        /\ t.token = sha256(2)
        /\ t.createdAt = now
        /\ uses[1] = 0
        /\ \A o \in tokens : o.token # sha256(1)
        /\ now < T0 + RESET_TTL
        /\ Unexpired(t.userId, t.type) = {t}

\* No request other than c is in flight.
Alone(c) == \A o \in Clients \ {c} : inflight[o].pc = "idle"

\* C20: when two generateToken calls for the same user and kind interleave,
\* at most two unexpired tokens of that kind exist for the user afterwards,
\* and the next generateToken for that user and kind that overlaps with no
\* other leaves exactly one.
C20_OneExtraRowThenHealed ==
    /\ [](\A i \in StoreUsers, type \in TokenTypes :
            Cardinality(Unexpired(i, type)) <= MaxClients)
    /\ [][\A c \in Clients :
            /\ \A i \in StoreUsers, type \in TokenTypes, ttl \in TokenTtls :
                  (Alone(c) /\ generateDelete(c, i, type, ttl)) =>
                     Matching(i, type)' = {}
            /\ (Alone(c) /\ generateCreate(c)
                   /\ Matching(inflight[c].uid, inflight[c].doc.type) = {})
                  => \A i \in StoreUsers, type \in TokenTypes :
                        (i = inflight[c].uid /\ type = inflight[c].doc.type)
                           => /\ Cardinality(Matching(i, type)') = 1
                              /\ \A t \in Matching(i, type)' :
                                    /\ t.token = sha256(nextSecret)
                                    /\ t.expiresAt
                                          = now + inflight[c].doc.expiresInMs
                              /\ Cardinality(Unexpired(i, type)') = 1]_vars

\* Two overlapping calls have both finished and left two unexpired records
\* of one user and kind.
C20_Witness ==
    /\ NoCallInFlight
    /\ \E i \in StoreUsers, type \in TokenTypes :
          /\ Cardinality(Unexpired(i, type)) = 2
          /\ resp.op = "generateToken"
          /\ resp.uid = i
          /\ resp.msg = type

\* The records generateToken(userId, type) has no business with.
Others(userId, type) == {t \in tokens : t.userId # userId \/ t.type # type}

\* C21: generateToken(userId, kind) invalidates every previously issued token
\* of that kind for that user: after it returns, the plaintext of any earlier
\* token of the same kind fails verifyToken, while tokens of the other kind
\* and tokens of other users are left untouched.
C21_GenerateInvalidatesSameKind ==
    [][\A c \in Clients, u \in Owners, ty \in TokenTypes :
         /\ \A ttl \in TokenTtls :
               generateDelete(c, u, ty, ttl) =>
                  /\ \A p \in 1..(nextSecret - 1) :
                        /\ verifyToken(p, ty)' # u
                        /\ (\E t \in tokenDocs(p, ty) : t.userId = u)
                              => verifyToken(p, ty)' = 0
                  /\ Others(u, ty)' = Others(u, ty)
         /\ (/\ generateCreate(c)
             /\ u = inflight[c].uid
             /\ ty = inflight[c].doc.type) =>
               /\ \A p \in 1..(nextSecret - 1) : verifyToken(p, ty)' # u
               /\ Others(u, ty)' = Others(u, ty)
               /\ \A s \in Plains :
                     s = nextSecret => verifyToken(s, ty)' = u]_vars

\* The third plaintext has just replaced the first, unused and unexpired,
\* for its user and kind, and the second, of another user, is still valid.
C21_Witness ==
    /\ resp.op = "generateToken"
    /\ nextSecret = 4
    /\ uses[1] = 0
    /\ now < T0 + RESET_TTL
    /\ verifyToken(1, resp.msg) = 0
    /\ verifyToken(3, resp.msg) = resp.uid
    /\ \E ty \in TokenTypes :
          /\ verifyToken(2, ty) \in Owners
          /\ verifyToken(2, ty) # resp.uid

\* C31: two concurrent verifyToken calls presenting the same valid plaintext
\* never both succeed: under every interleaving of their find and delete
\* steps at most one of them returns the userId.
C31_NoDoubleConsume ==
    \A p \in Plains : uses[p] <= 1

(***************************************************************************)
(* SpecOnboard: from sign-up to the first login, one request at a time.    *)
(***************************************************************************)
\* A second, and the lifetime of a verification link.
OnboardSteps == {MS_PER_SEC, VERIFY_TTL}

NextOnboard ==
    \/ \E c \in Callers : signupFind(c, "A@x.com", "pw-right-1")
    \/ \E c \in Callers : signupCreate(c)
    \/ \E c \in Callers : signupDeleteTokens(c)
    \/ \E c \in Callers : signupIssue(c)
    \/ \E c \in Callers, ok \in BOOLEAN : signupMail(c, ok)
    \/ \E c \in Callers : signupReply(c)
    \/ \E c \in Callers, pl \in Plains : verifyEmailFindToken(c, pl)
    \/ \E c \in Callers : verifyEmailDeleteToken(c)
    \/ \E c \in Callers : verifyEmailFindUser(c)
    \/ \E c \in Callers : verifyEmailSave(c)
    \/ \E c \in Callers : verifyEmailWelcome(c, TRUE)
    \/ \E c \in Callers : verifyEmailReply(c)
    \/ \E c \in Callers : resendFind(c, "A@x.com")
    \/ \E c \in Callers : resendHasValidToken(c)
    \/ \E c \in Callers : resendDeleteTokens(c)
    \/ \E c \in Callers : resendIssue(c)
    \/ \E c \in Callers : resendMail(c, TRUE)
    \/ \E c \in Callers : resendReply(c, TRUE)
    \/ \E c \in Callers, e \in SessionEmails, p \in Passwords :
          loginFind(c, e, p)
    \/ \E c \in Callers : loginUpdate(c)
    \/ \E c \in Callers : loginReject(c)
    \/ \E c \in Callers : loginReply(c)
    \/ Receive
    \/ \E d \in OnboardSteps : Tick(d)

SpecOnboard == InitTokens /\ [][NextOnboard]_vars

(***************************************************************************)
(* Sign-up to login, and what a rejected login tells: claims C23 and C29.  *)
(***************************************************************************)
\* C23: after signup(email, password), login with that email and password is
\* rejected with Unauthorized(unverified) for as long as the email is
\* unverified; after verifyEmail succeeds with the token issued at signup,
\* login with the same email and password succeeds and reports
\* isEmailVerified = true.
C23_LoginOnlyAfterVerification ==
    [][\A c \in Clients :
         /\ (loginUpdate(c) /\ findByEmail(inflight[c].email) # 0) =>
               LET uid == findByEmail(inflight[c].email)
                   p == inflight[c].password
               IN
               /\ ~users[uid].isEmailVerified =>
                     /\ resp' = Reply("login", 401, MsgUnverified, uid, NoJwt,
                                      NoJwt)
                     /\ inflight'[c].pc = "idle"
                     /\ UNCHANGED <<users, held>>
               /\ (/\ users[uid].isEmailVerified
                   /\ uses[SignupPlain] = 1
                   /\ bcryptCompare(p, users[uid].password)) =>
                     /\ inflight'[c].pc = "login:reset"
                     /\ inflight'[c].uid = uid
                     /\ inflight'[c].user.isEmailVerified
                     /\ users'[uid].isEmailVerified
                     /\ UNCHANGED resp
         /\ loginReply(c) =>
               LET uid == inflight[c].uid IN
               /\ resp'.code = 200
               /\ resp'.uid = uid
               /\ resp'.access = generateAccessToken(uid, now)
               /\ resp'.refresh = generateRefreshToken(uid, now)
               /\ inflight[c].user.isEmailVerified
               /\ loginDoc(uid).isEmailVerified
               /\ users'[uid].isEmailVerified]_vars

\* The user who signed up and then followed the signup link has logged in,
\* later, with the password of the signup.
C23_Witness ==
    /\ resp.op = "login"
    /\ resp.code = 200
    /\ resp.uid = 1
    /\ uses[SignupPlain] = 1
    /\ nextSecret = 2
    /\ users[1].isEmailVerified
    /\ users[1].emailVerifiedAt < resp.at
    /\ users[1].lastLoginAt = resp.at
    /\ resp.access # NoJwt

\* What login answers for an e-mail no user has.
UnregisteredLoginMessage == MsgInvalid

\* C29, as claimed: login's failure response does not reveal whether an
\* e-mail is registered: for any password, a login for an unregistered e-mail
\* and a rejected login for a registered e-mail return the same Unauthorized
\* message.
C29_LoginFailureUniform ==
    LoginRejected => resp.msg = UnregisteredLoginMessage

\* C29, amended: a login for an unregistered e-mail and a login for a
\* registered, verified, unlocked account that is rejected for its password
\* return the same Unauthorized message, 'Invalid email or password'; a login
\* for a registered account that is not verified is rejected with a message
\* of its own, whatever the password.
C29_WrongPasswordLooksUnregistered ==
    [][\A c \in Clients :
         /\ loginUpdate(c) =>
               LET uid == findByEmail(inflight[c].email)
                   rejected == inflight'[c].pc = "idle"
                   counted == inflight'[c].pc = "login:counted"
               IN
               /\ rejected => resp'.op = "login" /\ resp'.code = 401
               /\ uid = 0 =>
                     /\ rejected
                     /\ resp'.msg = UnregisteredLoginMessage
               /\ (/\ rejected \/ counted
                   /\ uid # 0
                   /\ users[uid].isEmailVerified
                   /\ ~isLocked(Select(users[uid], {"lockUntil"}), now)) =>
                     /\ WrongPassword(uid, inflight[c].password)
                     /\ counted
               /\ (uid # 0 /\ ~users[uid].isEmailVerified) =>
                     /\ rejected
                     /\ resp'.msg = MsgUnverified
                     /\ resp'.msg # UnregisteredLoginMessage
         /\ loginReject(c) =>
               /\ resp'.op = "login"
               /\ resp'.code = 401
               /\ resp'.uid = inflight[c].uid
               /\ resp'.msg = UnregisteredLoginMessage]_vars

\* A wrong password for a registered, verified account has just been turned
\* down for the fifth time, with the message of an unregistered e-mail.
C29_Witness ==
    /\ LoginRejected
    /\ resp.uid # 0
    /\ users[resp.uid].isEmailVerified
    /\ users[resp.uid].loginAttempts = MAX_LOGIN_ATTEMPTS
    /\ resp.msg = UnregisteredLoginMessage

(***************************************************************************)
(* SpecVerifyConc: sign-up, then verifyEmail and googleAuth requests that  *)
(* may overlap.                                                            *)
(***************************************************************************)
NextVerifyConc ==
    \/ \E c \in Callers : signupFind(c, "A@x.com", "pw-right-1")
    \/ \E c \in Callers : signupCreate(c)
    \/ \E c \in Callers : signupDeleteTokens(c)
    \/ \E c \in Callers : signupIssue(c)
    \/ \E c \in Callers : signupMail(c, TRUE)
    \/ \E c \in Callers : signupReply(c)
    \/ \E c \in Clients, pl \in Plains : verifyEmailFindToken(c, pl)
    \/ \E c \in Clients : verifyEmailDeleteToken(c)
    \/ \E c \in Clients : verifyEmailFindUser(c)
    \/ \E c \in Clients : verifyEmailSave(c)
    \/ \E c \in Clients : verifyEmailWelcome(c, TRUE)
    \/ \E c \in Clients : verifyEmailReply(c)
    \/ \E c \in Clients, v \in BOOLEAN :
          googleAuthFind(c, v, "a@x.com", TRUE)
    \/ \E c \in Clients : googleAuthLookup(c)
    \/ \E c \in Clients : googleAuthUpdate(c, TRUE)
    \/ \E c \in Clients : googleAuthReset(c)
    \/ \E c \in Clients : googleAuthReply(c)
    \/ Receive
    \/ \E d \in SessionSteps : Tick(d)

SpecVerifyConc == InitTokens /\ [][NextVerifyConc]_vars

\* C26: emailVerifiedAt is set exactly once: under any sequence or
\* interleaving of verifyEmail and googleAuth calls for the same user, once
\* the stored emailVerifiedAt is non-null no later operation changes its
\* value.
C26_VerifiedAtSetOnce ==
    [][\A i \in 1..Len(users) :
         users[i].emailVerifiedAt # NULL =>
            users'[i].emailVerifiedAt = users[i].emailVerifiedAt]_vars

(***************************************************************************)
(* SpecGoogleGuard: Google sign-in and password logins for an account that *)
(* starts out locked, one request at a time.                               *)
(***************************************************************************)
LockedSeed == <<MAX_LOGIN_ATTEMPTS, T0 + LOCK_TIME>>

InitLocked ==
    /\ InitBase
    /\ refreshSecret = "jwt-refresh-secret"
    /\ \E v \in BOOLEAN : users = <<SeedUser(v, LockedSeed)>>

NextGoogleGuard ==
    \/ \E c \in Callers, e \in Emails, p \in Passwords : loginFind(c, e, p)
    \/ \E c \in Callers : loginUpdate(c)
    \/ \E c \in Callers : loginReject(c)
    \/ \E c \in Callers : loginReply(c)
    \/ \E c \in Callers, v \in BOOLEAN, e \in Emails, ev \in BOOLEAN :
          googleAuthFind(c, v, e, ev)
    \/ \E c \in Callers : googleAuthLookup(c)
    \/ \E c \in Callers, le \in BOOLEAN : googleAuthUpdate(c, le)
    \/ \E c \in Callers : googleAuthReset(c)
    \/ \E c \in Callers : googleAuthReply(c)
    \/ Receive
    \/ \E d \in GuardSteps : Tick(d)

SpecGoogleGuard == InitLocked /\ [][NextGoogleGuard]_vars

\* C28: googleAuth for a provider identity whose e-mail matches an existing
\* active user sets isEmailVerified to true, resets loginAttempts to 0,
\* clears lockUntil and returns a session pair without any password check:
\* it succeeds even while the account is locked and never increments
\* loginAttempts.
C28_GoogleBypassesGuard ==
    [][\A c \in Clients :
         /\ \A v \in BOOLEAN, e \in Emails, ev \in BOOLEAN :
               googleAuthFind(c, v, e, ev) =>
                  /\ inflight'[c].pc = "google:verified"
                  /\ UNCHANGED <<users, resp>>
         /\ (/\ googleAuthLookup(c)
             /\ inflight[c].doc.valid
             /\ findByEmail(inflight[c].email) # 0) =>
               /\ inflight'[c].pc = "google:found"
               /\ inflight'[c].uid = findByEmail(inflight[c].email)
               /\ UNCHANGED <<users, resp>>
         /\ (googleAuthLookup(c) /\ ~inflight[c].doc.valid) =>
               /\ resp'.op = "googleAuth"
               /\ resp'.code = 400
               /\ inflight'[c].pc = "idle"
               /\ UNCHANGED users
         /\ ((\E le \in BOOLEAN : googleAuthUpdate(c, le))
                /\ findByEmail(inflight[c].email) # 0) =>
               LET u == findByEmail(inflight[c].email) IN
               /\ inflight'[c].pc \in {"google:saved", "google:reset"}
               /\ inflight'[c].uid = u
               /\ users'[u].isEmailVerified
               /\ users'[u].loginAttempts <= users[u].loginAttempts
               /\ users'[u].password = users[u].password
               /\ inflight'[c].pc = "google:reset" =>
                     /\ users'[u].loginAttempts = 0
                     /\ users'[u].lockUntil = NULL
               /\ UNCHANGED resp
         /\ googleAuthReset(c) =>
               LET u == inflight[c].uid IN
               /\ inflight'[c].pc = "google:reset"
               /\ users'[u].isEmailVerified
               /\ users'[u].loginAttempts = 0
               /\ users'[u].lockUntil = NULL
               /\ users'[u].password = users[u].password
               /\ UNCHANGED resp
         /\ googleAuthReply(c) =>
               LET u == inflight[c].uid IN
               /\ resp'.op = "googleAuth"
               /\ resp'.code = 200
               /\ resp'.uid = u
               /\ resp'.access = generateAccessToken(u, now)
               /\ resp'.refresh = generateRefreshToken(u, now)
               /\ users'[u].isEmailVerified
               /\ users'[u].loginAttempts = 0
               /\ users'[u].lockUntil = NULL
               /\ UNCHANGED users]_vars

\* Google sign-in has just succeeded, before any time passed, for the
\* account that started out locked until T0 + LOCK_TIME with five failed
\* attempts: the counter is 0 and the lock is gone.
C28_Witness ==
    /\ resp.op = "googleAuth"
    /\ resp.code = 200
    /\ now = T0
    /\ resp.at = T0
    /\ users[resp.uid].email = "a@x.com"
    /\ users[resp.uid].isEmailVerified
    /\ users[resp.uid].loginAttempts = 0
    /\ users[resp.uid].lockUntil = NULL
    /\ users[resp.uid].lastLoginAt = T0
    /\ resp.refresh = generateRefreshToken(resp.uid, T0)

(***************************************************************************)
(* SpecUpdate: the sessions of one verified user on a clock that also      *)
(* stops between two full seconds.                                         *)
(***************************************************************************)
UpdateSteps == {1, MS_PER_SEC - 1, MS_PER_SEC}

NextUpdate ==
    \/ \E c \in Callers : loginFind(c, "a@x.com", "pw-right-1")
    \/ \E c \in Callers : loginUpdate(c)
    \/ \E c \in Callers : loginReject(c)
    \/ \E c \in Callers : loginReply(c)
    \/ \E c \in Callers, tok \in Bearers : authenticateFind(c, tok, GetMe)
    \/ \E c \in Callers, tok \in Bearers, cur \in Passwords,
          p \in Passwords :
          authenticateFind(c, tok, UpdatePasswordBody(cur, p))
    \/ \E c \in Callers : authenticateNext(c)
    \/ \E c \in Callers : getMeReply(c)
    \/ \E c \in Callers, dev \in BOOLEAN : updatePasswordSave(c, dev)
    \/ \E c \in Callers : updatePasswordReply(c)
    \/ Receive
    \/ \E d \in UpdateSteps : Tick(d)

SpecUpdate == InitStore /\ [][NextUpdate]_vars

\* C32: the access token returned by a successful updatePassword is accepted
\* by authenticate immediately afterwards: its issued-at is never earlier
\* than the passwordChangedAt stamped by that same update, so the
\* password-change check does not reject the session the update just
\* created.
C32_UpdatedSessionAccepted ==
    [][\A c \in Clients :
         /\ (/\ updatePasswordSave(c, TRUE)
             /\ inflight'[c].pc = "updatePassword:saved") =>
               users'[inflight[c].uid].passwordChangedAt = now - PWD_SKEW
         /\ updatePasswordReply(c) =>
               /\ resp'.code = 200
               /\ resp'.access = generateAccessToken(inflight[c].uid, now)
               /\ resp'.access.iat * MS_PER_SEC
                     >= users[resp'.uid].passwordChangedAt
               /\ ~changedPasswordAfter(
                      Select(users[resp'.uid], {"passwordChangedAt"}),
                      resp'.access.iat)
               /\ authenticateError(resp'.access, now) = ""]_vars

\* A password update whose save and whose reply fell into different seconds
\* has returned its pair, and nothing has happened since.
C32_Witness ==
    /\ resp.op = "updatePassword"
    /\ resp.code = 200
    /\ now = resp.at
    /\ users[resp.uid].passwordChangedAt < resp.at - PWD_SKEW
    /\ users[resp.uid].passwordChangedAt % MS_PER_SEC = MS_PER_SEC - 1
    /\ resp.access.iat = NowSec(resp.at)
    /\ authenticateError(resp.access, now) = ""

(***************************************************************************)
(* SpecReset: one verified user who may ask for reset links, use them with *)
(* any new password, and delete the account.                               *)
(***************************************************************************)
ResetSteps == {MS_PER_SEC, RESET_TTL}

\* The new passwords tried: one the schema accepts and one it rejects.
ResetPasswords == {"pw-other-2", ShortPassword}

NextReset ==
    \/ \E c \in Callers : loginFind(c, "a@x.com", "pw-right-1")
    \/ \E c \in Callers : loginUpdate(c)
    \/ \E c \in Callers : loginReject(c)
    \/ \E c \in Callers : loginReply(c)
    \/ \E c \in Callers, tok \in Bearers :
          authenticateFind(c, tok, DeleteAccountBody)
    \/ \E c \in Callers : authenticateNext(c)
    \/ \E c \in Callers : deleteAccountReply(c)
    \/ \E c \in Callers : forgotFind(c, "A@x.com")
    \/ \E c \in Callers : forgotHasValidToken(c)
    \/ \E c \in Callers : forgotDeleteTokens(c)
    \/ \E c \in Callers : forgotIssue(c)
    \/ \E c \in Callers : forgotMail(c, TRUE)
    \/ \E c \in Callers : forgotReply(c)
    \/ \E c \in Callers, pl \in Plains, p \in ResetPasswords :
          resetFindToken(c, pl, p)
    \/ \E c \in Callers : resetDeleteToken(c)
    \/ \E c \in Callers : resetFindUser(c)
    \/ \E c \in Callers : resetSave(c)
    \/ \E c \in Callers : resetDeleteUserTokens(c)
    \/ \E c \in Callers : resetReply(c)
    \/ Receive
    \/ \E d \in ResetSteps : Tick(d)

SpecReset == InitStore /\ [][NextReset]_vars

\* A step of resetPassword on behalf of request c.
resetStep(c) ==
    \/ \E pl \in Plains, p \in NewPasswords : resetFindToken(c, pl, p)
    \/ resetDeleteToken(c)
    \/ resetFindUser(c)
    \/ resetSave(c)
    \/ resetDeleteUserTokens(c)
    \/ resetReply(c)

\* C33: resetPassword is all-or-nothing with respect to stored state:
\* whenever it raises an error (invalid or expired token, user not found, or
\* the new password rejected by the model's validation at save), the user's
\* password hash, passwordChangedAt and the user's stored tokens are exactly
\* as they were before the call: the step that raises changes nothing, and
\* the token document the call looked up is still stored.
C33_ResetAllOrNothing ==
    [][\A c \in Clients :
         /\ (resetStep(c) /\ resp' # resp /\ resp'.code # 200) =>
               /\ \A i \in 1..Len(users) :
                     /\ users'[i].password = users[i].password
                     /\ users'[i].passwordChangedAt
                           = users[i].passwordChangedAt
               /\ tokens' = tokens
               /\ inflight[c].tokenDoc # NoTokenDoc =>
                     inflight[c].tokenDoc \in tokens']_vars

(***************************************************************************)
(* SpecResetGuard: password resets and logins for a stored user in any     *)
(* lock state.                                                             *)
(***************************************************************************)
NextResetGuard ==
    \/ \E c \in Callers, p \in Passwords : loginFind(c, "a@x.com", p)
    \/ \E c \in Callers : loginUpdate(c)
    \/ \E c \in Callers : loginReject(c)
    \/ \E c \in Callers : loginReply(c)
    \/ \E c \in Callers : forgotFind(c, "a@x.com")
    \/ \E c \in Callers : forgotHasValidToken(c)
    \/ \E c \in Callers : forgotDeleteTokens(c)
    \/ \E c \in Callers : forgotIssue(c)
    \/ \E c \in Callers : forgotMail(c, TRUE)
    \/ \E c \in Callers : forgotReply(c)
    \/ \E c \in Callers, pl \in Plains :
          resetFindToken(c, pl, "pw-other-2")
    \/ \E c \in Callers : resetDeleteToken(c)
    \/ \E c \in Callers : resetFindUser(c)
    \/ \E c \in Callers : resetSave(c)
    \/ \E c \in Callers : resetDeleteUserTokens(c)
    \/ \E c \in Callers : resetReply(c)
    \/ Receive
    \/ \E d \in GuardSteps : Tick(d)

SpecResetGuard == InitGuard /\ [][NextResetGuard]_vars

\* C34: resetPassword changes only the password hash, passwordChangedAt and
\* the user's ephemeral tokens: it leaves loginAttempts, lockUntil and
\* isEmailVerified unchanged, so an account that was locked before a
\* successful reset is still locked after it.
C34_ResetLeavesGuardAlone ==
    [][\A c \in Clients :
         (\/ \E pl \in Plains, p \in Passwords : resetFindToken(c, pl, p)
          \/ resetDeleteToken(c)
          \/ resetFindUser(c)
          \/ resetSave(c)
          \/ resetDeleteUserTokens(c)
          \/ resetReply(c)) =>
            /\ Len(users') = Len(users)
            /\ \A i \in 1..Len(users) :
                  /\ users'[i].loginAttempts = users[i].loginAttempts
                  /\ users'[i].lockUntil = users[i].lockUntil
                  /\ users'[i].isEmailVerified = users[i].isEmailVerified
                  /\ users'[i].emailVerifiedAt = users[i].emailVerifiedAt
                  /\ users'[i].lastLoginAt = users[i].lastLoginAt
                  /\ users'[i].isActive = users[i].isActive
                  /\ users'[i].email = users[i].email
                  /\ isLocked(Select(users[i], {"lockUntil"}), now)
                        => isLocked(Select(users'[i], {"lockUntil"}), now)
                  /\ i # inflight[c].uid => users'[i] = users[i]
            /\ (resetSave(c) /\ inflight'[c].pc = "reset:saved") =>
                  /\ users'[inflight[c].uid].password
                        = bcryptHash(inflight[c].newPassword)
                  /\ users'[inflight[c].uid].passwordChangedAt
                        = now - PWD_SKEW
            /\ UNCHANGED <<outbox, held, nextSecret>>]_vars

\* A reset has just succeeded for the account that was stored locked: the
\* counter is still at the threshold and the lock still runs.
C34_Witness ==
    /\ resp.op = "resetPassword"
    /\ resp.code = 200
    /\ users[resp.uid].passwordChangedAt = resp.at - PWD_SKEW
    /\ users[resp.uid].loginAttempts = MAX_LOGIN_ATTEMPTS
    /\ users[resp.uid].lockUntil = T0 + LOCK_TIME
    /\ isLocked(Select(users[resp.uid], {"lockUntil"}), now)

(***************************************************************************)
(* SpecProfile: one account from sign-up on: it is verified, logs in by    *)
(* password or through Google, edits its profile, may change its password  *)
(* and may be deleted.                                                     *)
(***************************************************************************)
NextProfile ==
    \/ \E c \in Callers : signupFind(c, "A@x.com", "pw-right-1")
    \/ \E c \in Callers : signupCreate(c)
    \/ \E c \in Callers : signupDeleteTokens(c)
    \/ \E c \in Callers : signupIssue(c)
    \/ \E c \in Callers : signupMail(c, TRUE)
    \/ \E c \in Callers : signupReply(c)
    \/ \E c \in Callers : verifyEmailFindToken(c, SignupPlain)
    \/ \E c \in Callers : verifyEmailDeleteToken(c)
    \/ \E c \in Callers : verifyEmailFindUser(c)
    \/ \E c \in Callers : verifyEmailSave(c)
    \/ \E c \in Callers : verifyEmailWelcome(c, TRUE)
    \/ \E c \in Callers : verifyEmailReply(c)
    \/ \E c \in Callers : loginFind(c, "a@x.com", "pw-right-1")
    \/ \E c \in Callers : loginUpdate(c)
    \/ \E c \in Callers : loginReject(c)
    \/ \E c \in Callers : loginReply(c)
    \/ \E c \in Callers : googleAuthFind(c, TRUE, "a@x.com", TRUE)
    \/ \E c \in Callers : googleAuthLookup(c)
    \/ \E c \in Callers : googleAuthUpdate(c, TRUE)
    \/ \E c \in Callers : googleAuthReset(c)
    \/ \E c \in Callers : googleAuthReply(c)
    \/ \E c \in Callers, tok \in Bearers :
          authenticateFind(c, tok, UpdateProfileBody({"firstName"}))
    \/ \E c \in Callers, tok \in Bearers :
          authenticateFind(c, tok,
                           UpdatePasswordBody("pw-right-1", "pw-other-2"))
    \/ \E c \in Callers, tok \in Bearers :
          authenticateFind(c, tok, DeleteAccountBody)
    \/ \E c \in Callers : authenticateNext(c)
    \/ \E c \in Callers : deleteAccountReply(c)
    \/ \E c \in Callers : updateProfileSave(c, TRUE)
    \/ \E c \in Callers : updateProfileReply(c)
    \/ \E c \in Callers : updatePasswordSave(c, TRUE)
    \/ \E c \in Callers : updatePasswordReply(c)
    \/ Receive
    \/ \E d \in SessionSteps : Tick(d)

SpecProfile == InitTokens /\ [][NextProfile]_vars

\* A step, on behalf of request c, of an operation that does not replace the
\* password: verifyEmail, login, googleAuth, updateProfile or deleteAccount.
NonPasswordStep(c) ==
    \/ \E pl \in Plains : verifyEmailFindToken(c, pl)
    \/ verifyEmailDeleteToken(c)
    \/ verifyEmailFindUser(c)
    \/ verifyEmailSave(c)
    \/ \E ok \in BOOLEAN : verifyEmailWelcome(c, ok)
    \/ verifyEmailReply(c)
    \/ \E e \in Emails, p \in Passwords : loginFind(c, e, p)
    \/ loginUpdate(c)
    \/ loginReject(c)
    \/ loginReply(c)
    \/ \E e \in Emails, ev \in BOOLEAN : googleAuthFind(c, TRUE, e, ev)
    \/ googleAuthLookup(c)
    \/ \E le \in BOOLEAN : googleAuthUpdate(c, le)
    \/ googleAuthReset(c)
    \/ googleAuthReply(c)
    \/ \E tok \in Bearers, paths \in ProfilePaths :
          authenticateFind(c, tok, UpdateProfileBody(paths))
    \/ \E tok \in Bearers : authenticateFind(c, tok, DeleteAccountBody)
    \/ (authenticateNext(c)
        /\ inflight[c].doc.route \in {"updateProfile", "deleteAccount"})
    \/ updateProfileSave(c, TRUE)
    \/ updateProfileReply(c)
    \/ deleteAccountReply(c)

\* The step leaves every stored password hash and stamp alone, and with
\* them the answer of the password-change check for every token at hand.
StampsKept ==
    \A i \in DOMAIN users :
       /\ users'[i].password = users[i].password
       /\ users'[i].passwordChangedAt = users[i].passwordChangedAt
       /\ \A tok \in Presentable :
             tok.id = i =>
                changedPasswordAfter(
                    Select(users[i], {"passwordChangedAt"}), tok.iat)'
                 = changedPasswordAfter(
                    Select(users[i], {"passwordChangedAt"}), tok.iat)

\* C38: hashing and the passwordChangedAt stamp happen only when the
\* password itself is replaced: verifyEmail, updateProfile, login, googleAuth
\* on an existing user and deleteAccount leave every stored password hash and
\* passwordChangedAt as they were, so the password-change check answers for
\* every access token issued before the call what it answered before.
C38_OnlyPasswordChangeStamps ==
    [][\A c \in Clients :
         \/ StampsKept
         \/ ~(NonPasswordStep(c) /\ Len(users') = Len(users))]_vars

\* A user whose password was changed earlier has just edited the profile
\* with a session that change left valid; the stamp is still the one the
\* change left, more than a second before the edit.
C38_Witness ==
    /\ resp.op = "updateProfile"
    /\ resp.code = 200
    /\ resp.tok \in held
    /\ users[resp.uid].password = bcryptHash("pw-other-2")
    /\ users[resp.uid].passwordChangedAt # NULL
    /\ users[resp.uid].passwordChangedAt < resp.at - PWD_SKEW
    /\ authenticateError(resp.tok, now) = ""

\* SpecClient: a page whose storage holds a session, a refresh token only,
\* or nothing, and whose requests may overlap.  Every call that was sent is
\* answered: by the server, or by the network error that ends it.
ClientSteps == {MS_PER_SEC}

InitClient ==
    /\ now = T0
    /\ ticks = 0
    /\ tokens = {}
    /\ nextSecret = 1
    /\ outbox = {}
    /\ refreshSecret = "jwt-refresh-secret"
    /\ users = <<SeedUser(TRUE, <<0, NULL>>)>>
    /\ held \in {{}, {generateRefreshToken(1, T0)},
                 {generateAccessToken(1, T0), generateRefreshToken(1, T0)}}
    /\ resp = NoResp
    /\ wire = {}
    /\ streak = 0
    /\ inflight = [c \in Clients |-> Idle]
    /\ uses = [p \in Plains |-> 0]

NextClient ==
    \/ \E c \in Clients, caller \in ApiCallers : apiRequest(c, caller)
    \/ \E c \in Clients, status \in HttpStatuses : apiResponse(c, status)
    \/ \E c \in Clients, ok \in BOOLEAN : refreshAnswer(c, ok)
    \/ \E c \in Clients : refreshResponse(c)
    \/ \E d \in ClientSteps : Tick(d)

SpecClient ==
    /\ InitClient
    /\ [][NextClient]_vars
    /\ \A c \in Clients :
          /\ WF_vars(\E status \in HttpStatuses : apiResponse(c, status))
          /\ WF_vars(\E ok \in BOOLEAN : refreshAnswer(c, ok))
          /\ WF_vars(refreshResponse(c))

\* Request c is being handled / its promise has settled.
Pending(c) == inflight[c].pc \in {"sent", "refreshing", "refreshed"}
Settled(c) == inflight[c].pc \in {"resolved", "rejected"}

\* C40: in the client's response interceptor a request that receives 401
\* triggers at most one refresh-and-retry: no request has the refresh
\* endpoint called for it more than once or is sent more than twice, a
\* request is sent a second time only when marked _retry, a 401 for a marked
\* request is rejected without another refresh, and the handling of every
\* request ends.
C40_AtMostOneRefreshAndRetry ==
    /\ [](\A c \in Clients :
             inflight[c].pc # "idle" =>
                /\ inflight[c].doc.refreshes <= 1
                /\ inflight[c].doc.sends <= 2
                /\ (inflight[c].doc.sends = 2 => inflight[c].doc._retry))
    /\ [][\A c \in Clients :
             (/\ inflight[c].pc = "sent"
              /\ inflight[c].doc._retry
              /\ apiResponse(c, 401)) =>
                /\ inflight'[c].pc = "rejected"
                /\ inflight'[c].doc.refreshes = inflight[c].doc.refreshes
                /\ inflight'[c].doc.sends = inflight[c].doc.sends
                /\ (inflight[c].caller = "refreshUser" => held' = held)]_vars
    /\ \A c \in Clients : Pending(c) ~> Settled(c)

\* A request was answered 401, the token was refreshed for it, it was sent
\* again, and the 401 that came back was rejected; the refreshed session is
\* still stored.
C40_Witness ==
    \E c \in Clients :
       /\ inflight[c].pc = "rejected"
       /\ inflight[c].doc._retry
       /\ inflight[c].doc.status = 401
       /\ inflight[c].doc.sends = 2
       /\ inflight[c].doc.refreshes = 1
       /\ localStorageGet("refresh") # NoJwt
       /\ localStorageGet("access") = inflight[c].doc.Authorization

=============================================================================
